---- MODULE Spec2Model ----
(***************************************************************************)
(* Model of the LLMToolBridge proxy: the tool-call extractor               *)
(* (ToolConverter), and the per-request round handlers of ProxyHandler     *)
(* (handleRequest, handleStreamingRequest).                                *)
(*                                                                         *)
(* Text is a sequence of tokens.  Every token stands for a fixed piece of  *)
(* text; the text a sequence stands for is the concatenation of its        *)
(* tokens.  Braces, fences and whitespace are tokens of their own, so the  *)
(* character scans of the source (brace counting, trim, the regular        *)
(* expressions) are scans over tokens here.                                *)
(***************************************************************************)
EXTENDS Integers, Sequences, FiniteSets, TLC

-----------------------------------------------------------------------------
(* Tokens *)

LB == "{"
RB == "}"
F1 == "\"function"
F2 == "_call\":"
NM == "\"name\":\"x\""
\* the name member with other values: another text, a number, the empty
\* text, a boolean
NY == "\"name\":\"y\""
N5 == "\"name\":5"
NE == "\"name\":\"\""
NB == "\"name\":true"
AK == "\"arguments\":"
CM == ","
SP == " "
NL == "\n"
PR == "a"
\* FN stands for a fence of three backticks
FN == "FENCE"
JS == "json"
FW == "function_call"
S1 == "I need to call a function"
DOT == "."

Tokens == {LB, RB, F1, F2, NM, NY, N5, NE, NB, AK, CM, SP, NL, PR, FN, JS, FW, S1, DOT}

\* tokens whose text is whitespace only
IsSpace(t) == t \in {SP, NL}
\* tokens whose text contains a double quote
HasQuote(t) == t \in {F1, F2, NM, NY, N5, NE, NB, AK}
\* tokens whose text begins / ends with a double quote
StartsQuote(t) == t \in {F1, NM, NY, N5, NE, NB, AK}
EndsQuote(t) == t \in {NM, NY, NE}
\* tokens whose text ends with the word function
EndsFunction(t) == t \in {F1, S1}

-----------------------------------------------------------------------------
(* String primitives *)

RECURSIVE TrimLeft(_)
TrimLeft(s) ==
    IF s /= <<>> /\ IsSpace(Head(s)) THEN TrimLeft(Tail(s)) ELSE s

RECURSIVE TrimRight(_)
TrimRight(s) ==
    IF s /= <<>> /\ IsSpace(s[Len(s)]) THEN TrimRight(SubSeq(s, 1, Len(s) - 1)) ELSE s

\* String.prototype.trim
Trim(s) == TrimRight(TrimLeft(s))

\* s.startsWith(t) for a text t of one token
StartsWith(s, t) == s /= <<>> /\ s[1] = t
\* s.startsWith of a newline followed by an opening brace
StartsWithNLBrace(s) == Len(s) >= 2 /\ s[1] = NL /\ s[2] = LB
\* s.endsWith(t) for a text t of one token
EndsWith(s, t) == s /= <<>> /\ s[Len(s)] = t

\* s.includes of the bare word function_call
IncludesMarker(s) ==
    \E i \in 1..Len(s) :
        \/ s[i] = FW
        \/ i < Len(s) /\ EndsFunction(s[i]) /\ s[i + 1] = F2

\* the occurrences of the quoted literal "function_call" in s, each as the
\* pair <<first token it touches, last token it touches>>
QuotedMarkerAt(s) ==
    { <<i, i + 1>> : i \in { j \in 1..(Len(s) - 1) : s[j] = F1 /\ s[j + 1] = F2 } }
    \cup
    { <<i - 1, i + 1>> : i \in { j \in 2..(Len(s) - 1) :
                                   /\ s[j] = FW
                                   /\ EndsQuote(s[j - 1])
                                   /\ StartsQuote(s[j + 1]) } }

\* s.includes of the quoted word function_call
IncludesQuotedMarker(s) == QuotedMarkerAt(s) /= {}

\* index of the first occurrence of token t in s at or after position i, 0 if none
RECURSIVE IndexFrom(_, _, _)
IndexFrom(s, t, i) ==
    IF i > Len(s) THEN 0
    ELSE IF s[i] = t THEN i
    ELSE IndexFrom(s, t, i + 1)

\* first position at or after i that holds no whitespace (Len(s)+1 if none)
RECURSIVE SkipWs(_, _)
SkipWs(s, i) ==
    IF i <= Len(s) /\ IsSpace(s[i]) THEN SkipWs(s, i + 1) ELSE i

-----------------------------------------------------------------------------
(* JSON.parse over tokens *)

\* JSON values.  ser is the text JSON.stringify gives for the value.
Undef == [k |-> "undef", s |-> "", members |-> <<>>, ser |-> <<>>]
StrVal(str) == [k |-> "str", s |-> str, members |-> <<>>, ser |-> <<"\"", str, "\"">>]
\* a number and a boolean, s holding the literal
NumVal(lit) == [k |-> "num", s |-> lit, members |-> <<>>, ser |-> <<lit>>]
BoolVal(lit) == [k |-> "bool", s |-> lit, members |-> <<>>, ser |-> <<lit>>]

\* a member token is a whole "key":value pair
IsMemberTok(t) == t \in {NM, NY, N5, NE, NB}
KeyName == <<"name">>
KeyArguments == <<"arguments">>
KeyFunctionCall == <<F1, F2>>
MemberKey(t) == KeyName
MemberVal(t) ==
    CASE t = NM -> StrVal("x")
      [] t = NY -> StrVal("y")
      [] t = N5 -> NumVal("5")
      [] t = NE -> StrVal("")
      [] t = NB -> BoolVal("true")

\* the members of an object, each with mser, the text of "key":value
RECURSIVE JoinMembers(_)
JoinMembers(ms) ==
    IF ms = <<>> THEN <<>>
    ELSE IF Len(ms) = 1 THEN ms[1].mser
    ELSE ms[1].mser \o <<CM>> \o JoinMembers(Tail(ms))

ObjVal(ms) == [k |-> "obj", s |-> "", members |-> ms,
               ser |-> <<LB>> \o JoinMembers(ms) \o <<RB>>]

\* obj[key] = val: a repeated key keeps its place and takes the last value
SetMember(ms, key, mser, val) ==
    IF \E i \in 1..Len(ms) : ms[i].key = key
    THEN [i \in 1..Len(ms) |->
            IF ms[i].key = key THEN [key |-> key, mser |-> mser, val |-> val]
            ELSE ms[i]]
    ELSE Append(ms, [key |-> key, mser |-> mser, val |-> val])

\* v[key], undefined when v is no object or has no such key
Get(v, key) ==
    IF v.k = "obj" /\ \E i \in 1..Len(v.members) : v.members[i].key = key
    THEN v.members[CHOOSE i \in 1..Len(v.members) : v.members[i].key = key].val
    ELSE Undef

\* JavaScript truthiness
Truthy(v) ==
    \/ v.k = "obj"
    \/ v.k = "str" /\ v.s /= ""
    \/ v.k = "num" /\ v.s /= "0"
    \/ v.k = "bool" /\ v.s = "true"

ParseFail == [ok |-> FALSE, val |-> Undef, next |-> 0]

\* the string opened by the quote of F1 at position j is closed by the first
\* later token holding a quote; a raw newline may not occur in a string
RECURSIVE StringClose(_, _)
StringClose(t, i) ==
    IF i > Len(t) \/ t[i] = NL THEN 0
    ELSE IF HasQuote(t[i]) THEN i
    ELSE StringClose(t, i + 1)

RECURSIVE ParseValue(_, _)
RECURSIVE ParseMembers(_, _, _)
RECURSIVE AfterMember(_, _, _)

\* a value starting at the first non-blank position at or after i
ParseValue(t, i) ==
    LET j == SkipWs(t, i) IN
    IF j > Len(t) \/ t[j] /= LB THEN ParseFail
    ELSE LET m == SkipWs(t, j + 1) IN
         IF m <= Len(t) /\ t[m] = RB
         THEN [ok |-> TRUE, val |-> ObjVal(<<>>), next |-> m + 1]
         ELSE ParseMembers(t, m, <<>>)

\* a member starting at the non-blank position j
ParseMembers(t, j, ms) ==
    IF j > Len(t) THEN ParseFail
    ELSE IF IsMemberTok(t[j])
    THEN AfterMember(t, j + 1, SetMember(ms, MemberKey(t[j]), <<t[j]>>, MemberVal(t[j])))
    ELSE IF t[j] = AK
    THEN LET v == ParseValue(t, j + 1) IN
         IF v.ok THEN AfterMember(t, v.next, SetMember(ms, KeyArguments, <<AK>> \o v.val.ser, v.val))
         ELSE ParseFail
    ELSE IF t[j] = F1
    THEN LET c == StringClose(t, j + 1) IN
         IF c = 0 \/ t[c] /= F2 THEN ParseFail
         ELSE LET key == SubSeq(t, j, c)
                  v == ParseValue(t, c + 1) IN
              IF v.ok THEN AfterMember(t, v.next, SetMember(ms, key, key \o v.val.ser, v.val))
              ELSE ParseFail
    ELSE ParseFail

\* after a member: a closing brace, or a comma and another member
AfterMember(t, i, ms) ==
    LET j == SkipWs(t, i) IN
    IF j > Len(t) THEN ParseFail
    ELSE IF t[j] = RB THEN [ok |-> TRUE, val |-> ObjVal(ms), next |-> j + 1]
    ELSE IF t[j] = CM THEN ParseMembers(t, SkipWs(t, j + 1), ms)
    ELSE ParseFail

\* JSON.parse(t): ok is FALSE where JSON.parse throws
JSONParse(t) ==
    LET v == ParseValue(t, 1) IN
    IF v.ok /\ SkipWs(t, v.next) = Len(t) + 1 THEN v ELSE ParseFail

-----------------------------------------------------------------------------
(* ToolConverter *)

\* the two sentinel sentences
Sentinel == <<S1, DOT>>
SentinelNoPeriod == <<S1>>

\* the brace scan of extractToolCallFromResponse: the loop from index i on,
\* with the loop variables braceCount and startIdx (0 for -1).  The result is
\* the span <<startIdx, i>> of the candidate taken as jsonContent, <<0, 0>>
\* when the loop ends without one.
RECURSIVE BraceScan(_, _, _, _)
BraceScan(response, i, braceCount, startIdx) ==
    IF i > Len(response) THEN <<0, 0>>
    ELSE IF response[i] = LB
    THEN BraceScan(response, i + 1, braceCount + 1,
                   IF startIdx = 0 THEN i ELSE startIdx)
    ELSE IF response[i] = RB
    THEN IF braceCount - 1 = 0 /\ startIdx /= 0
              /\ IncludesMarker(SubSeq(response, startIdx, i))
         THEN <<startIdx, i>>
         ELSE BraceScan(response, i + 1, braceCount - 1, startIdx)
    ELSE BraceScan(response, i + 1, braceCount, startIdx)

NoMatch == [found |-> FALSE, from |-> 0, to |-> 0, group |-> <<>>]

\* the first match of the pattern fence, blanks, json, blanks, (group), fence
\* looked for from position i on; from and to are the two fences
RECURSIVE JsonFenceMatch(_, _)
JsonFenceMatch(response, i) ==
    LET f == IndexFrom(response, FN, i) IN
    IF f = 0 THEN NoMatch
    ELSE LET j == SkipWs(response, f + 1)
             e == IndexFrom(response, FN, j + 1) IN
         IF j <= Len(response) /\ response[j] = JS /\ e /= 0
         THEN [found |-> TRUE, from |-> f, to |-> e,
               group |-> SubSeq(response, j + 1, e - 1)]
         ELSE JsonFenceMatch(response, f + 1)

\* the first match of the pattern fence, blanks, (group), fence
AnyFenceMatch(response) ==
    LET f == IndexFrom(response, FN, 1)
        e == IF f = 0 THEN 0 ELSE IndexFrom(response, FN, f + 1) IN
    IF e = 0 THEN NoMatch
    ELSE [found |-> TRUE, from |-> f, to |-> e,
          group |-> SubSeq(response, f + 1, e - 1)]

\* the code-block fallback: the match of the first pattern that matches
CodeBlockMatch(response) ==
    LET m1 == JsonFenceMatch(response, 1) IN
    IF m1.found THEN m1 ELSE AnyFenceMatch(response)

\* where jsonContent is taken from: the path that set it and the span of
\* response it covers (the whole code block on the code-block path)
JsonSource(response) ==
    LET trimmedResponse == Trim(response)
        scan == BraceScan(response, 1, 0, 0)
        m == CodeBlockMatch(response) IN
    IF StartsWith(trimmedResponse, LB) /\ EndsWith(trimmedResponse, RB)
    THEN [path |-> "whole",
          from |-> SkipWs(response, 1),
          to |-> Len(TrimRight(response)),
          content |-> trimmedResponse]
    ELSE IF scan /= <<0, 0>>
    THEN [path |-> "braces", from |-> scan[1], to |-> scan[2],
          content |-> SubSeq(response, scan[1], scan[2])]
    ELSE IF m.found
    THEN [path |-> "codeblock", from |-> m.from, to |-> m.to,
          content |-> Trim(m.group)]
    ELSE [path |-> "none", from |-> 0, to |-> 0, content |-> <<>>]

\* jsonContent as it stands before JSON.parse (the empty text for null)
JsonContent(response) == JsonSource(response).content

NoCall == [found |-> FALSE, name |-> Undef, arguments |-> <<>>]

\* mutant: an object that carries name itself is taken as the call
extractToolCallFromResponse_FlatCall(response) ==
    LET trimmedResponse == Trim(response)
        jsonContent == JsonContent(response)
        parsed == JSONParse(jsonContent)
        fc == IF Truthy(Get(parsed.val, KeyFunctionCall))
              THEN Get(parsed.val, KeyFunctionCall) ELSE parsed.val
        args == Get(fc, KeyArguments) IN
    IF trimmedResponse = Sentinel \/ trimmedResponse = SentinelNoPeriod THEN NoCall
    ELSE IF jsonContent = <<>> THEN NoCall
    ELSE IF parsed.ok /\ Truthy(fc) /\ Truthy(Get(fc, KeyName))
    THEN [found |-> TRUE, name |-> Get(fc, KeyName),
          arguments |-> IF Truthy(args) THEN args.ser ELSE ObjVal(<<>>).ser]
    ELSE NoCall

\* mutant: the arguments of the call are not copied, the empty object is sent
extractToolCallFromResponse_NoArguments(response) ==
    LET trimmedResponse == Trim(response)
        jsonContent == JsonContent(response)
        parsed == JSONParse(jsonContent)
        fc == Get(parsed.val, KeyFunctionCall) IN
    IF trimmedResponse = Sentinel \/ trimmedResponse = SentinelNoPeriod THEN NoCall
    ELSE IF jsonContent = <<>> THEN NoCall
    ELSE IF parsed.ok /\ Truthy(fc) /\ Truthy(Get(fc, KeyName))
    THEN [found |-> TRUE, name |-> Get(fc, KeyName), arguments |-> ObjVal(<<>>).ser]
    ELSE NoCall

\* mutant: a function_call is taken as a call whether or not it has a name
extractToolCallFromResponse_NamelessCall(response) ==
    LET trimmedResponse == Trim(response)
        jsonContent == JsonContent(response)
        parsed == JSONParse(jsonContent)
        fc == Get(parsed.val, KeyFunctionCall)
        args == Get(fc, KeyArguments) IN
    IF trimmedResponse = Sentinel \/ trimmedResponse = SentinelNoPeriod THEN NoCall
    ELSE IF jsonContent = <<>> THEN NoCall
    ELSE IF parsed.ok /\ Truthy(fc)
    THEN [found |-> TRUE, name |-> Get(fc, KeyName),
          arguments |-> IF Truthy(args) THEN args.ser ELSE ObjVal(<<>>).ser]
    ELSE NoCall

\* extractToolCallFromResponse, without the generated id
extractToolCallFromResponse(response) ==
    LET trimmedResponse == Trim(response)
        jsonContent == JsonContent(response)
        parsed == JSONParse(jsonContent)
        fc == Get(parsed.val, KeyFunctionCall)
        args == Get(fc, KeyArguments) IN
    IF trimmedResponse = Sentinel \/ trimmedResponse = SentinelNoPeriod THEN NoCall
    ELSE IF jsonContent = <<>> THEN NoCall
    ELSE IF parsed.ok /\ Truthy(fc) /\ Truthy(Get(fc, KeyName))
    THEN [found |-> TRUE, name |-> Get(fc, KeyName),
          arguments |-> IF Truthy(args) THEN args.ser ELSE ObjVal(<<>>).ser]
    ELSE NoCall

\* index of the first match of the raw JSON pattern of
\* extractTextBeforeToolCall: an opening brace, later the quoted marker,
\* later a closing brace; 0 if there is no match
RawJsonIndex(response) ==
    LET b == IndexFrom(response, LB, 1) IN
    IF b /= 0 /\ \E o \in QuotedMarkerAt(response) :
                     /\ o[1] > b
                     /\ IndexFrom(response, RB, o[2] + 1) /= 0
    THEN b ELSE 0

extractTextBeforeToolCall(response) ==
    LET m == AnyFenceMatch(response)
        f == IndexFrom(response, FN, 1)
        b == RawJsonIndex(response) IN
    IF m.found THEN Trim(SubSeq(response, 1, f - 1))
    ELSE IF b /= 0 THEN Trim(SubSeq(response, 1, b - 1))
    ELSE response

\* mutant: the sentinel sentences are not tested for
ExtractSteps_NoSentinelGuard(response) ==
    LET trimmedResponse == Trim(response)
        src == JsonSource(response) IN
    (IF StartsWith(trimmedResponse, LB) /\ EndsWith(trimmedResponse, RB)
     THEN <<"whole">> ELSE <<"braces">>)
    \o (IF src.path \in {"codeblock", "none"} THEN <<"codeblock">> ELSE <<>>)
    \o (IF src.content /= <<>> THEN <<"parse">> ELSE <<>>)

\* the steps one invocation of extractToolCallFromResponse goes through, in
\* order: the sentinel test, the whole-JSON test or the brace scan, the
\* code-block fallback, JSON.parse
ExtractSteps(response) ==
    LET trimmedResponse == Trim(response)
        src == JsonSource(response) IN
    IF trimmedResponse = Sentinel \/ trimmedResponse = SentinelNoPeriod
    THEN <<"sentinel">>
    ELSE <<"sentinel">>
         \o (IF StartsWith(trimmedResponse, LB) /\ EndsWith(trimmedResponse, RB)
             THEN <<"whole">> ELSE <<"braces">>)
         \o (IF src.path \in {"codeblock", "none"} THEN <<"codeblock">> ELSE <<>>)
         \o (IF src.content /= <<>> THEN <<"parse">> ELSE <<>>)

\* convertToolsToSystemPrompt: the prompt as a sequence of text pieces
\* the closing part of the prompt: the function_call format and its rules
FormatInstruction == "To use a function, respond with ONLY {function_call: {name, arguments}}"

\* mutant: the format instruction is repeated after every tool
RECURSIVE ToolLines_InstructionPerTool(_)
ToolLines_InstructionPerTool(tools) ==
    IF tools = <<>> THEN <<>>
    ELSE LET tool == Head(tools) IN
         <<"Function: ", tool.name, "Description: ", tool.description>>
         \o (IF Truthy(tool.parameters)
             THEN <<"Parameters: ">> \o tool.parameters.ser ELSE <<>>)
         \o <<FormatInstruction, "\n">>
         \o ToolLines_InstructionPerTool(Tail(tools))

\* the tools.forEach loop: parameters is tested for truthiness and written
\* as JSON.stringify gives it
RECURSIVE ToolLines(_)
ToolLines(tools) ==
    IF tools = <<>> THEN <<>>
    ELSE LET tool == Head(tools) IN
         <<"Function: ", tool.name, "Description: ", tool.description>>
         \o (IF Truthy(tool.parameters)
             THEN <<"Parameters: ">> \o tool.parameters.ser ELSE <<>>)
         \o <<"\n">>
         \o ToolLines(Tail(tools))

convertToolsToSystemPrompt(tools) ==
    IF tools = <<>> THEN <<>>
    ELSE <<"You are a helpful assistant.", "<<<">>
         \o ToolLines(tools)
         \o <<">>>", FormatInstruction>>

\* convertToolMessageToUserMessage
convertToolMessageToUserMessage(toolMessage) ==
    [role |-> "user",
     content |-> <<"Function ", IF toolMessage.name /= "" THEN toolMessage.name ELSE "tool",
                   " returned: ">> \o toolMessage.content,
     tool_calls |-> <<>>,
     name |-> ""]

-----------------------------------------------------------------------------
(* ProxyHandler *)

VARIABLES
    request,          \* the request: messages, tools, stream
    messages,         \* the local messages
    configMaxRounds,  \* maxRounds as configured, 0 when not configured
    backendText,      \* the whole text of the backend's reply
    source,           \* the part of backendText not delivered yet
    pc,               \* position of the handler
    round,            \* the local round
    hasToolResponse,  \* the local hasToolResponse
    fullResponse,     \* the local fullResponse
    toolCallDetected, \* the local toolCallDetected
    bufferedChunks,   \* the local bufferedChunks
    emitted,          \* the stream chunks yielded so far
    result,           \* the response handleRequest returned
    error,            \* the error the handler threw
    consumed,         \* the deltas the stream has yielded, in order
    sent,             \* the message lists sent to the backend, in order
    extractorCalls,   \* the texts extractToolCallFromResponse was called on
    extractions,      \* the calls made on a ToolConverter, each with what it returned
    executed,         \* the tool calls handed to ToolExecutor.executeToolCall
    compiled,         \* the tool lists convertToolsToSystemPrompt was called on, each with its prompt
    replyShape,       \* the shape of the data axios.post returned to callTargetLLM
    unmatched,        \* the lines of the backend stream extractContent returned null for
    res,              \* the HTTP response of the chat route: status, writes, ended
    config,           \* ConfigurationManager.config: proxy settings, targets, models
    proxyHandlerCache, \* the Map proxyHandlerCache: its entries in insertion order
    uuids,            \* the number of ids uuidv4 has given to createTarget
    lastCall,         \* the last operation on the server: its name, what it returned, the state before it
    parse,            \* one call of parseStream: bytes to come, buffer, contents yielded
    peer              \* the locals of a second handleStreamingRequest call on the same handler

vars == <<request, messages, configMaxRounds, backendText, source, pc, round,
          hasToolResponse, fullResponse, toolCallDetected, bufferedChunks,
          emitted, result, error, consumed, sent, extractorCalls,
          extractions, executed, compiled, replyShape, unmatched, res,
          config, proxyHandlerCache, uuids, lastCall, parse, peer>>

\* the variables of the server around the handler, and those of one request
serverVars == <<config, proxyHandlerCache, uuids, lastCall, parse, peer>>
handlerVars == <<request, messages, configMaxRounds, backendText, source, pc, round,
                 hasToolResponse, fullResponse, toolCallDetected, bufferedChunks,
                 emitted, result, error, consumed, sent, extractorCalls,
                 extractions, executed, compiled, replyShape, unmatched, res>>

\* bounds of the model
MaxSegs == 2      \* segments in a backend text of the streaming specification
MaxDeltas == 3    \* deltas the backend splits a text into
MaxMsgs == 2      \* messages in a request
MaxReqSegs == 1   \* segments in a backend text of the request specification
MaxExtractSegs == 2  \* segments in a free text of the extractor specification
MaxCalls == 3     \* uses of the converter in one behaviour
MaxTools == 4     \* tools in a list the Prompt Compiler is used on
MaxUnmatched == 2 \* lines without content in a streamed reply
MaxTargets == 2   \* targets in the configuration
MaxUuids == 3     \* targets created in one behaviour
MaxModels == 3    \* models in the registry and in a fetched list
MaxHandlers == 2  \* handlers created in one behaviour
MaxLines == 2     \* lines in a backend stream of bytes

\* ProxyHandler constructor: config.maxRounds || 10
DefaultMaxRounds == 10
maxRounds == IF configMaxRounds /= 0 THEN configMaxRounds ELSE DefaultMaxRounds

Msg(role, content, toolCalls, name) ==
    [role |-> role, content |-> content, tool_calls |-> toolCalls, name |-> name]

\* messages.some(m => m.role === 'tool')
HasToolMessage(ms) == \E i \in 1..Len(ms) : ms[i].role = "tool"

\* mutant: the prompt always goes into a new first system message
injectToolSystemPrompt_AlwaysPrepend(ms, toolPrompt) ==
    <<Msg("system", toolPrompt, <<>>, "")>> \o ms

\* injectToolSystemPrompt
injectToolSystemPrompt(ms, toolPrompt) ==
    IF \E i \in 1..Len(ms) : ms[i].role = "system"
    THEN LET f == CHOOSE i \in 1..Len(ms) :
                    /\ ms[i].role = "system"
                    /\ \A j \in 1..(i - 1) : ms[j].role /= "system" IN
         [ms EXCEPT ![f].content = ms[f].content \o <<"\n\n">> \o toolPrompt]
    ELSE <<Msg("system", toolPrompt, <<>>, "")>> \o ms

\* mutant: the messages are sent as they are
prepareMessagesForTarget_AsIs(ms) == ms

\* prepareMessagesForTarget
prepareMessagesForTarget(ms) ==
    [i \in 1..Len(ms) |->
        IF ms[i].role = "tool" THEN convertToolMessageToUserMessage(ms[i])
        ELSE IF ms[i].tool_calls /= <<>>
        THEN Msg(ms[i].role,
                 IF ms[i].content /= <<>> THEN ms[i].content
                 ELSE <<"Calling function: ", ms[i].tool_calls[1]>>,
                 <<>>, "")
        ELSE Msg(ms[i].role, ms[i].content, <<>>, "")]

\* mutant: the injection does not look at the length of the tool list
InjectedMessages_NoToolsCheck(ms, tools) ==
    IF ~HasToolMessage(ms)
    THEN injectToolSystemPrompt(ms, convertToolsToSystemPrompt(tools))
    ELSE ms

\* the payload callTargetLLM and streamTargetLLM post: the prepared messages
\* with the target model, the request's sampling settings and the stream flag
TargetPayload(prepared, stream) ==
    [model |-> "targetModel", messages |-> prepared,
     temperature |-> "request.temperature", max_tokens |-> "request.max_tokens",
     stream |-> stream]

\* the local messages after the injection step both handlers start with
InjectedMessages(ms, tools) ==
    IF Len(tools) > 0 /\ ~HasToolMessage(ms)
    THEN injectToolSystemPrompt(ms, convertToolsToSystemPrompt(tools))
    ELSE ms

\* the ToolCall object without its id: name is the parsed value as it is
ToolCallOf(r) ==
    [type |-> "function", function |-> [name |-> r.name, arguments |-> r.arguments]]

createStreamChunk(content, finishReason) ==
    [content |-> content, tool_calls |-> <<>>, finish_reason |-> finishReason]

createToolCallStreamChunk(toolCall) ==
    [content |-> <<>>, tool_calls |-> <<toolCall>>, finish_reason |-> "null"]

createCompletionResponse(content) ==
    [content |-> content, null_content |-> FALSE, tool_calls |-> <<>>,
     finish_reason |-> "stop"]

createToolCallResponse(toolCall, textBefore) ==
    [content |-> textBefore, null_content |-> textBefore = <<>>,
     tool_calls |-> <<toolCall>>, finish_reason |-> "tool_calls"]

NoResult == [content |-> <<>>, null_content |-> FALSE, tool_calls |-> <<>>,
             finish_reason |-> "none"]

\* the shapes of a non-streaming backend reply
\* "choices" carries choices[0].message.content, "delta" carries
\* choices[0].delta.content, "response" carries response, "message" carries
\* message.content, "string" is a bare string, "error" carries an error
\* object, "other" carries none of these
ReplyShapes == {"choices", "delta", "response", "message", "string", "error", "other"}

EmptyReplyText == <<"I received an empty response from the model. Please try again.">>

\* callTargetLLM after axios.post has returned data of the given shape
\* carrying the text content
callTargetLLM(shape, content) ==
    IF shape = "error" THEN [ok |-> FALSE, text |-> <<>>, error |-> "TargetLLMError"]
    ELSE IF shape = "choices"
    THEN [ok |-> TRUE, text |-> IF content = <<>> THEN EmptyReplyText ELSE content,
          error |-> "none"]
    ELSE IF shape = "response" /\ content /= <<>>
    THEN [ok |-> TRUE, text |-> content, error |-> "none"]
    ELSE IF shape = "message" /\ content /= <<>>
    THEN [ok |-> TRUE, text |-> content, error |-> "none"]
    ELSE IF shape = "string"
    THEN [ok |-> TRUE, text |-> content, error |-> "none"]
    ELSE [ok |-> FALSE, text |-> <<>>, error |-> "UnexpectedResponseFormat"]

-----------------------------------------------------------------------------
(* the chat route: what it writes on the HTTP response *)

\* the response before the route has written anything: status 200, headers not sent
NoResponse == [status |-> 200, body |-> <<>>, ended |-> FALSE]

\* res.headersSent: true from the first write on
headersSent(r) == r.body /= <<>>

\* res.write of one chunk as an event-stream data line
DataEvent(chunk) == [kind |-> "data", chunk |-> chunk, type |-> "none"]

\* res.write of the error chunk as an event-stream data line
ErrorEvent == [kind |-> "error", chunk |-> createStreamChunk(<<>>, "null"), type |-> "stream_error"]

\* res.write of the end-of-stream line
DoneEvent == [kind |-> "done", chunk |-> createStreamChunk(<<>>, "null"), type |-> "none"]

\* a body sent with res.json: the completion or an error object of the given type
JsonBody(type) == [kind |-> "json", chunk |-> createStreamChunk(<<>>, "null"), type |-> type]

\* the for-await loop of the route: one write per chunk the handler yields
WriteChunks(r, chunks) ==
    [r EXCEPT !.body = @ \o [i \in 1..Len(chunks) |-> DataEvent(chunks[i])]]

\* after the loop: the end-of-stream line and res.end()
WriteDone(r) == [r EXCEPT !.body = Append(@, DoneEvent), !.ended = TRUE]

\* mutant: the catch always answers with an error status and an error body
StreamCatch_AlwaysStatus(r) ==
    [status |-> 500, body |-> <<JsonBody("stream_error")>>, ended |-> TRUE]

\* the catch of the streaming branch
StreamCatch(r) ==
    IF ~headersSent(r)
    THEN [status |-> 500, body |-> <<JsonBody("stream_error")>>, ended |-> TRUE]
    ELSE [r EXCEPT !.body = @ \o <<ErrorEvent, DoneEvent>>, !.ended = TRUE]

\* res.json(response) of the non-streaming branch
SendJson(r) == [r EXCEPT !.body = <<JsonBody("completion")>>, !.ended = TRUE]

\* the outer catch of the route
RouteCatch(r) ==
    IF ~headersSent(r)
    THEN [status |-> 500, body |-> <<JsonBody("internal_error")>>, ended |-> TRUE]
    ELSE r

-----------------------------------------------------------------------------
(* handleStreamingRequest *)

\* entry of handleStreamingRequest up to the start of the stream
BeginStream ==
    /\ pc = "init"
    /\ request.stream
    /\ hasToolResponse' = HasToolMessage(request.messages)
    /\ messages' = InjectedMessages(request.messages, request.tools)
    /\ IF round < maxRounds
       THEN /\ sent' = Append(sent, prepareMessagesForTarget(messages'))
            /\ pc' = "streaming"
            /\ error' = error
            /\ res' = res
       ELSE /\ sent' = sent
            /\ pc' = "failed"
            /\ error' = "MaxRoundsExceeded"
            /\ res' = StreamCatch(res)
    /\ UNCHANGED <<serverVars, request, compiled, unmatched, replyShape, extractions, executed, configMaxRounds, backendText, source, round, fullResponse,
                   toolCallDetected, bufferedChunks, emitted, result, consumed,
                   extractorCalls>>

\* mutant: the early detection tests the accumulated text without trimming it
LooksLikeToolCall_NoTrim(full) ==
    \/ StartsWith(full, LB)
    \/ StartsWithNLBrace(full)
    \/ IncludesQuotedMarker(full)

\* looksLikeToolCall of the accumulated text
LooksLikeToolCall(full) ==
    LET trimmed == Trim(full) IN
    \/ StartsWith(trimmed, LB)
    \/ StartsWithNLBrace(trimmed)
    \/ IncludesQuotedMarker(trimmed)

\* mutant: the branch that keeps buffering once a pattern was detected is missing
StreamChunkStep_NoStickyBuffer(chunk) ==
    LET full == fullResponse \o chunk IN
    /\ fullResponse' = full
    /\ consumed' = Append(consumed, chunk)
    /\ IF ~hasToolResponse /\ LooksLikeToolCall(full) /\ ~toolCallDetected
       THEN /\ toolCallDetected' = TRUE
            /\ bufferedChunks' = Append(bufferedChunks, chunk)
            /\ emitted' = emitted
       ELSE /\ emitted' = Append(emitted, createStreamChunk(chunk, "null"))
            /\ UNCHANGED <<toolCallDetected, bufferedChunks>>

\* mutant: the early detection also runs in a finalization round
StreamChunkStep_DetectInFinalization(chunk) ==
    LET full == fullResponse \o chunk IN
    /\ fullResponse' = full
    /\ consumed' = Append(consumed, chunk)
    /\ IF LooksLikeToolCall(full) \/ toolCallDetected
       THEN /\ toolCallDetected' = TRUE
            /\ bufferedChunks' = Append(bufferedChunks, chunk)
            /\ emitted' = emitted
       ELSE /\ emitted' = Append(emitted, createStreamChunk(chunk, "null"))
            /\ UNCHANGED <<toolCallDetected, bufferedChunks>>

\* one iteration of the for-await loop, on the delta chunk
StreamChunkStep(chunk) ==
    LET full == fullResponse \o chunk IN
    /\ fullResponse' = full
    /\ consumed' = Append(consumed, chunk)
    /\ IF ~hasToolResponse
       THEN IF LooksLikeToolCall(full) /\ ~toolCallDetected
            THEN /\ toolCallDetected' = TRUE
                 /\ bufferedChunks' = Append(bufferedChunks, chunk)
                 /\ emitted' = emitted
            ELSE IF toolCallDetected
            THEN /\ bufferedChunks' = Append(bufferedChunks, chunk)
                 /\ UNCHANGED <<toolCallDetected, emitted>>
            ELSE /\ emitted' = Append(emitted, createStreamChunk(chunk, "null"))
                 /\ UNCHANGED <<toolCallDetected, bufferedChunks>>
       ELSE /\ emitted' = Append(emitted, createStreamChunk(chunk, "null"))
            /\ UNCHANGED <<toolCallDetected, bufferedChunks>>

\* the backend delivers the next delta: a non-empty prefix of what is left
StreamDelta ==
    /\ pc = "streaming"
    /\ source /= <<>>
    /\ \E n \in 1..Len(source) :
          /\ Len(consumed) + 1 < MaxDeltas \/ n = Len(source)
          /\ StreamChunkStep(SubSeq(source, 1, n))
          /\ source' = SubSeq(source, n + 1, Len(source))
    /\ res' = WriteChunks(res, SubSeq(emitted', Len(emitted) + 1, Len(emitted')))
    /\ UNCHANGED <<serverVars, request, compiled, unmatched, replyShape, extractions, executed, messages, configMaxRounds, backendText, pc, round,
                   hasToolResponse, result, error, sent, extractorCalls>>

\* the chunks yielded for a recovered call
CallChunks(full, reason) ==
    LET toolCall == extractToolCallFromResponse(full)
        textBefore == extractTextBeforeToolCall(full) IN
    (IF Trim(textBefore) /= <<>>
     THEN <<createStreamChunk(textBefore, "null")>> ELSE <<>>)
    \o <<createToolCallStreamChunk(ToolCallOf(toolCall)),
         createStreamChunk(<<>>, reason)>>

\* the chunks yielded when the buffered deltas are replayed
ReplayChunks ==
    (IF toolCallDetected /\ Len(bufferedChunks) > 0
     THEN [i \in 1..Len(bufferedChunks) |-> createStreamChunk(bufferedChunks[i], "null")]
     ELSE <<>>)
    \o <<createStreamChunk(<<>>, "stop")>>

\* mutant: the stream of a recovered call finishes with reason stop
EndChunks_StopAfterCall(full) ==
    IF extractToolCallFromResponse(full).found
    THEN CallChunks(full, "stop")
    ELSE ReplayChunks

\* mutant: the text after the recovered call is sent after the tool call
EndChunks_TextAfter(full) ==
    LET src == JsonSource(full)
        textAfter == Trim(SubSeq(full, src.to + 1, Len(full)))
        cs == CallChunks(full, "tool_calls") IN
    IF extractToolCallFromResponse(full).found
    THEN SubSeq(cs, 1, Len(cs) - 1)
         \o (IF textAfter /= <<>> THEN <<createStreamChunk(textAfter, "null")>> ELSE <<>>)
         \o <<cs[Len(cs)]>>
    ELSE ReplayChunks

\* mutant: the buffered deltas are replayed joined into one chunk
RECURSIVE JoinChunks(_)
JoinChunks(cs) == IF cs = <<>> THEN <<>> ELSE Head(cs) \o JoinChunks(Tail(cs))
EndChunks_ReplayJoined(full) ==
    IF extractToolCallFromResponse(full).found
    THEN CallChunks(full, "tool_calls")
    ELSE (IF toolCallDetected /\ Len(bufferedChunks) > 0
          THEN <<createStreamChunk(JoinChunks(bufferedChunks), "null")>>
          ELSE <<>>)
         \o <<createStreamChunk(<<>>, "stop")>>

\* mutant: the buffered deltas are not replayed when no call is recovered
EndChunks_NoReplay(full) ==
    IF extractToolCallFromResponse(full).found
    THEN CallChunks(full, "tool_calls")
    ELSE <<createStreamChunk(<<>>, "stop")>>

\* the chunks yielded after the loop when extraction is attempted
EndChunks(full) ==
    IF extractToolCallFromResponse(full).found
    THEN CallChunks(full, "tool_calls")
    ELSE ReplayChunks

\* the kinds of line extractContent returns null for: a JSON line that
\* carries none of the content fields, and one that carries an error object
UnmatchedKinds == {"unknown", "error"}

\* the backend delivers a line that extractContent returns null for:
\* parseStream yields nothing and goes on with the next line
StreamUnmatched ==
    /\ pc = "streaming"
    /\ Len(unmatched) < MaxUnmatched
    /\ \E kind \in UnmatchedKinds : unmatched' = Append(unmatched, kind)
    /\ UNCHANGED <<serverVars, request, messages, configMaxRounds, backendText, source, pc,
                   round, hasToolResponse, fullResponse, toolCallDetected,
                   bufferedChunks, emitted, result, error, consumed, sent,
                   extractorCalls, extractions, executed, compiled, replyShape, res>>

\* the source is exhausted: the code after the for-await loop
StreamEnd ==
    /\ pc = "streaming"
    /\ source = <<>>
    /\ IF ~hasToolResponse
       THEN /\ extractorCalls' = Append(extractorCalls, fullResponse)
            /\ emitted' = emitted \o EndChunks(fullResponse)
       ELSE /\ extractorCalls' = extractorCalls
            /\ emitted' = Append(emitted, createStreamChunk(<<>>, "stop"))
    /\ pc' = "done"
    /\ res' = WriteDone(WriteChunks(res, SubSeq(emitted', Len(emitted) + 1, Len(emitted'))))
    /\ UNCHANGED <<serverVars, request, compiled, unmatched, replyShape, extractions, executed, messages, configMaxRounds, backendText, source, round,
                   hasToolResponse, fullResponse, toolCallDetected, bufferedChunks,
                   result, error, consumed, sent>>

\* the backend stream fails: streamTargetLLM rethrows
StreamError ==
    /\ pc = "streaming"
    /\ pc' = "failed"
    /\ error' = "BackendError"
    /\ res' = StreamCatch(res)
    /\ UNCHANGED <<serverVars, request, compiled, unmatched, replyShape, extractions, executed, messages, configMaxRounds, backendText, source, round,
                   hasToolResponse, fullResponse, toolCallDetected, bufferedChunks,
                   emitted, result, consumed, sent, extractorCalls>>

-----------------------------------------------------------------------------
(* handleRequest *)

\* entry of handleRequest up to the backend call
BeginRequest ==
    /\ pc = "init"
    /\ ~request.stream
    /\ hasToolResponse' = HasToolMessage(request.messages)
    /\ messages' = InjectedMessages(request.messages, request.tools)
    /\ IF round < maxRounds
       THEN /\ sent' = Append(sent, prepareMessagesForTarget(messages'))
            /\ pc' = "awaiting"
            /\ error' = error
            /\ res' = res
       ELSE /\ sent' = sent
            /\ pc' = "failed"
            /\ error' = "MaxRoundsExceeded"
            /\ res' = RouteCatch(res)
    /\ UNCHANGED <<serverVars, request, compiled, unmatched, replyShape, extractions, executed, configMaxRounds, backendText, source, round, fullResponse,
                   toolCallDetected, bufferedChunks, emitted, result, consumed,
                   extractorCalls>>

\* mutant: extraction is attempted whether or not a tool response is present
RequestResult_AlwaysExtract(response) ==
    LET toolCall == extractToolCallFromResponse(response)
        textBefore == extractTextBeforeToolCall(response) IN
    IF toolCall.found
    THEN createToolCallResponse(ToolCallOf(toolCall),
                                IF Trim(textBefore) /= <<>> THEN textBefore ELSE <<>>)
    ELSE createCompletionResponse(response)

\* the response built from the backend text
RequestResult(response) ==
    LET toolCall == extractToolCallFromResponse(response)
        textBefore == extractTextBeforeToolCall(response)
        meaningfulText == IF Trim(textBefore) /= <<>> THEN textBefore ELSE <<>> IN
    IF ~hasToolResponse /\ toolCall.found
    THEN createToolCallResponse(ToolCallOf(toolCall), meaningfulText)
    ELSE createCompletionResponse(response)

\* mutant: a detected call is executed by the proxy, its result is appended
\* as a tool-role message and the backend is called again
BackendReply_ExecutesTool ==
    /\ pc = "awaiting"
    /\ \E shape \in ReplyShapes :
          LET r == callTargetLLM(shape, source)
              toolCall == extractToolCallFromResponse(r.text) IN
          IF r.ok /\ ~hasToolResponse /\ toolCall.found /\ executed = <<>>
          THEN /\ fullResponse' = r.text
               /\ extractorCalls' = Append(extractorCalls, r.text)
               /\ executed' = Append(executed, ToolCallOf(toolCall))
               /\ messages' = messages \o
                     <<Msg("assistant", <<>>, <<"get_weather">>, ""),
                       Msg("tool", <<"sunny">>, <<>>, "get_weather")>>
               /\ sent' = Append(sent, prepareMessagesForTarget(messages'))
               /\ UNCHANGED <<pc, error, result>>
          ELSE IF r.ok
          THEN /\ fullResponse' = r.text
               /\ extractorCalls' = IF ~hasToolResponse
                                    THEN Append(extractorCalls, r.text)
                                    ELSE extractorCalls
               /\ result' = RequestResult(r.text)
               /\ pc' = "done"
               /\ UNCHANGED <<error, executed, messages, sent>>
          ELSE /\ pc' = "failed"
               /\ error' = r.error
               /\ UNCHANGED <<fullResponse, extractorCalls, result, executed,
                              messages, sent>>
    /\ UNCHANGED <<serverVars, request, compiled, unmatched, replyShape, res, extractions, configMaxRounds, backendText, source,
                   round, hasToolResponse,
                   toolCallDetected, bufferedChunks, emitted, consumed>>

\* mutant: a reply without a call does not end the loop: the round is
\* counted and the backend is called again until the rounds are used up
BackendReply_NextRound ==
    /\ pc = "awaiting"
    /\ \E shape \in ReplyShapes :
          LET r == callTargetLLM(shape, source) IN
          IF r.ok /\ (hasToolResponse \/ ~extractToolCallFromResponse(r.text).found)
          THEN /\ fullResponse' = r.text
               /\ extractorCalls' = IF ~hasToolResponse
                                    THEN Append(extractorCalls, r.text)
                                    ELSE extractorCalls
               /\ round' = round + 1
               /\ IF round + 1 < maxRounds
                  THEN /\ sent' = Append(sent, prepareMessagesForTarget(messages))
                       /\ UNCHANGED <<pc, error>>
                  ELSE /\ pc' = "failed"
                       /\ error' = "MaxRoundsExceeded"
                       /\ sent' = sent
               /\ result' = result
          ELSE IF r.ok
          THEN /\ fullResponse' = r.text
               /\ extractorCalls' = Append(extractorCalls, r.text)
               /\ result' = RequestResult(r.text)
               /\ pc' = "done"
               /\ UNCHANGED <<error, round, sent>>
          ELSE /\ pc' = "failed"
               /\ error' = r.error
               /\ UNCHANGED <<fullResponse, extractorCalls, result, round, sent>>
    /\ UNCHANGED <<serverVars, request, compiled, unmatched, replyShape, res, extractions, executed, messages, configMaxRounds,
                   backendText, source, hasToolResponse,
                   toolCallDetected, bufferedChunks, emitted, consumed>>

\* the backend answers: the rest of callTargetLLM and of the loop body
BackendReply ==
    /\ pc = "awaiting"
    /\ \E shape \in ReplyShapes :
          LET r == callTargetLLM(shape, source) IN
          /\ replyShape' = shape
          /\ IF r.ok
             THEN /\ fullResponse' = r.text
                  /\ extractorCalls' = IF ~hasToolResponse
                                       THEN Append(extractorCalls, r.text)
                                       ELSE extractorCalls
                  /\ result' = RequestResult(r.text)
                  /\ pc' = "done"
                  /\ error' = error
                  /\ res' = SendJson(res)
             ELSE /\ pc' = "failed"
                  /\ error' = r.error
                  /\ res' = RouteCatch(res)
                  /\ UNCHANGED <<fullResponse, extractorCalls, result>>
    /\ UNCHANGED <<serverVars, request, compiled, unmatched, extractions, executed, messages, configMaxRounds, backendText, source,
                   round, hasToolResponse,
                   toolCallDetected, bufferedChunks, emitted, consumed, sent>>

\* axios.post throws: transport error or non-2xx status
BackendError ==
    /\ pc = "awaiting"
    /\ pc' = "failed"
    /\ error' = "BackendError"
    /\ res' = RouteCatch(res)
    /\ UNCHANGED <<serverVars, request, compiled, unmatched, replyShape, extractions, executed, messages, configMaxRounds, backendText, source, round,
                   hasToolResponse, fullResponse, toolCallDetected, bufferedChunks,
                   emitted, result, consumed, sent, extractorCalls>>

-----------------------------------------------------------------------------
(* ConfigurationManager *)

\* a target; ids, model names and keys of the cache are texts in pieces, "-"
\* being a piece of its own
Target(id, name, url, apiKey, model, enabled, priority) ==
    [id |-> id, name |-> name, url |-> url, apiKey |-> apiKey, model |-> model,
     enabled |-> enabled, priority |-> priority]

\* undefined where a target is expected
NoTarget == Target(<<>>, "", "", "", <<>>, FALSE, 0)

\* defaultConfig: no chat key, no default target, no targets, no models
DefaultConfig ==
    [proxy |-> [chatApiKey |-> <<>>, defaultTarget |-> <<>>], targets |-> <<>>, models |-> <<>>]

\* the first element of a sequence that satisfies Test, none if there is none
Find(seq, Test(_), none) ==
    IF \E i \in 1..Len(seq) : Test(seq[i])
    THEN seq[CHOOSE i \in 1..Len(seq) : Test(seq[i]) /\ \A j \in 1..(i - 1) : ~Test(seq[j])]
    ELSE none

\* getTarget
getTarget(c, id) == LET Is(t) == t.id = id IN Find(c.targets, Is, NoTarget)

\* Array.prototype.sort with (a, b) => a.priority - b.priority: a stable
\* sort, here by insertion
RECURSIVE SortByPriority(_)
SortByPriority(ts) ==
    IF ts = <<>> THEN <<>>
    ELSE LET rest == SortByPriority(SubSeq(ts, 1, Len(ts) - 1))
             last == ts[Len(ts)]
             k == Cardinality({i \in 1..Len(rest) : rest[i].priority <= last.priority}) IN
         SubSeq(rest, 1, k) \o <<last>> \o SubSeq(rest, k + 1, Len(rest))

\* mutant: the default target is returned whether or not it is enabled
getActiveTarget_IgnoresEnabled(c) ==
    LET defaultTarget == getTarget(c, c.proxy.defaultTarget) IN
    IF c.proxy.defaultTarget /= <<>> /\ defaultTarget /= NoTarget
    THEN defaultTarget
    ELSE LET IsEnabled(t) == t.enabled
             sorted == SortByPriority(SelectSeq(c.targets, IsEnabled)) IN
         IF sorted = <<>> THEN NoTarget ELSE sorted[1]

\* getActiveTarget: filter makes a new array, so the sort leaves the targets
\* of the configuration as they are
getActiveTarget(c) ==
    LET defaultTarget == getTarget(c, c.proxy.defaultTarget) IN
    IF c.proxy.defaultTarget /= <<>> /\ defaultTarget /= NoTarget /\ defaultTarget.enabled
    THEN defaultTarget
    ELSE LET IsEnabled(t) == t.enabled
             sorted == SortByPriority(SelectSeq(c.targets, IsEnabled)) IN
         IF sorted = <<>> THEN NoTarget ELSE sorted[1]

\* createTarget with the id uuidv4 returned
createTarget(c, body, id) ==
    [c EXCEPT !.targets = Append(@, [f \in DOMAIN body \cup {"id"} |->
                                        IF f = "id" THEN id ELSE body[f]])]

\* mutant: the id of the updates is not overridden
updateTarget_KeepsUpdateId(c, id, updates) ==
    LET Is(t) == t.id = id IN
    IF Find(c.targets, Is, NoTarget) = NoTarget THEN [config |-> c, found |-> FALSE]
    ELSE [config |-> [c EXCEPT !.targets =
                        [i \in 1..Len(c.targets) |->
                            IF c.targets[i].id = id
                               /\ \A j \in 1..(i - 1) : c.targets[j].id /= id
                            THEN [f \in DOMAIN c.targets[i] |->
                                     IF f \in DOMAIN updates THEN updates[f]
                                     ELSE c.targets[i][f]]
                            ELSE c.targets[i]]],
          found |-> TRUE]

\* updateTarget: the target at findIndex is replaced by itself overlaid with
\* the updates and with its id; undefined for an unknown id
updateTarget(c, id, updates) ==
    LET Is(t) == t.id = id IN
    IF Find(c.targets, Is, NoTarget) = NoTarget THEN [config |-> c, found |-> FALSE]
    ELSE [config |-> [c EXCEPT !.targets =
                        [i \in 1..Len(c.targets) |->
                            IF c.targets[i].id = id
                               /\ \A j \in 1..(i - 1) : c.targets[j].id /= id
                            THEN [f \in DOMAIN c.targets[i] |->
                                     IF f = "id" THEN id
                                     ELSE IF f \in DOMAIN updates THEN updates[f]
                                     ELSE c.targets[i][f]]
                            ELSE c.targets[i]]],
          found |-> TRUE]

\* mutant: the default target is not cleared when its target is deleted
deleteTarget_KeepsDefault(c, id) ==
    LET Is(t) == t.id = id
        IsNot(t) == t.id /= id IN
    IF Find(c.targets, Is, NoTarget) = NoTarget THEN [config |-> c, found |-> FALSE]
    ELSE [config |-> [c EXCEPT !.targets = SelectSeq(@, IsNot)], found |-> TRUE]

\* deleteTarget: splice at findIndex, the default target cleared when it was
\* the one deleted; false for an unknown id
deleteTarget(c, id) ==
    LET Is(t) == t.id = id
        index == CHOOSE i \in 1..Len(c.targets) :
                    c.targets[i].id = id /\ \A j \in 1..(i - 1) : c.targets[j].id /= id IN
    IF Find(c.targets, Is, NoTarget) = NoTarget THEN [config |-> c, found |-> FALSE]
    ELSE [config |-> [c EXCEPT
                        !.targets = SubSeq(@, 1, index - 1) \o SubSeq(@, index + 1, Len(@)),
                        !.proxy.defaultTarget = IF @ = id THEN <<>> ELSE @],
          found |-> TRUE]

\* the set-default route of AdminAPI: 404 for an unknown id, else
\* updateProxyConfig({defaultTarget: id})
SetDefaultRoute(c, id) ==
    IF getTarget(c, id) = NoTarget THEN [config |-> c, found |-> FALSE]
    ELSE [config |-> [c EXCEPT !.proxy.defaultTarget = id], found |-> TRUE]

\* getTargetForModel: by the provider of the stored model of that id, else by
\* the model of the target
getTargetForModel(c, modelName) ==
    LET IsModel(m) == m.id = modelName
        model == Find(c.models, IsModel, [id |-> <<>>, provider |-> ""])
        Provides(t) == t.name = model.provider /\ t.enabled
        HasModel(t) == t.model = modelName /\ t.enabled IN
    IF \E i \in 1..Len(c.models) : IsModel(c.models[i])
    THEN Find(c.targets, Provides, NoTarget)
    ELSE Find(c.targets, HasModel, NoTarget)

\* removeModel: splice at the first model of that id and provider, if any
removeModel(models, id, provider) ==
    LET Is(m) == m.id = id /\ m.provider = provider IN
    IF \E i \in 1..Len(models) : Is(models[i])
    THEN LET index == CHOOSE i \in 1..Len(models) :
                         Is(models[i]) /\ \A j \in 1..(i - 1) : ~Is(models[j]) IN
         SubSeq(models, 1, index - 1) \o SubSeq(models, index + 1, Len(models))
    ELSE models

\* addModel: replace the model of that id and provider, else push
addModel(models, model) ==
    LET Is(m) == m.id = model.id /\ m.provider = model.provider IN
    IF \E i \in 1..Len(models) : Is(models[i])
    THEN [i \in 1..Len(models) |->
            IF Is(models[i]) /\ \A j \in 1..(i - 1) : ~Is(models[j]) THEN model
            ELSE models[i]]
    ELSE Append(models, model)

\* the models route: when a fresh model was fetched, oldModels.forEach
\* removes each old model from the array it walks, then the fresh ones are
\* added; forEach visits index k only while the array still has it
RECURSIVE ClearOldModels(_, _, _)
ClearOldModels(models, k, len) ==
    IF k > len THEN models
    ELSE IF k <= Len(models)
    THEN ClearOldModels(removeModel(models, models[k].id, models[k].provider), k + 1, len)
    ELSE ClearOldModels(models, k + 1, len)

RECURSIVE AddModels(_, _)
AddModels(models, fresh) ==
    IF fresh = <<>> THEN models
    ELSE AddModels(addModel(models, Head(fresh)), Tail(fresh))

ModelsRoute(c, freshModels) ==
    IF Len(freshModels) > 0
    THEN [c EXCEPT !.models = AddModels(ClearOldModels(@, 1, Len(@)), freshModels)]
    ELSE c

-----------------------------------------------------------------------------
(* the server: handler cache and chat route *)

\* the ProxyHandler built for a target and a model; serial tells one object
\* from another
NewProxyHandler(target, modelName, serial) ==
    [targetApiUrl |-> target.url, targetModel |-> modelName, apiKey |-> target.apiKey,
     maxRounds |-> 10, serial |-> serial]

NoHandler == [targetApiUrl |-> "", targetModel |-> <<>>, apiKey |-> "", maxRounds |-> 0,
              serial |-> 0]

\* the template string `${target.id}-${modelName}`
cacheKey(id, modelName) == id \o <<"-">> \o modelName

\* getProxyHandlerForModel: the target of the model, else the active target,
\* else an error; the handler cached under the key, created when absent; an
\* entry keeps, next to the handler, the id of the target it was created for
getProxyHandlerForModel(c, cache, modelName) ==
    LET byModel == getTargetForModel(c, modelName)
        target == IF byModel /= NoTarget THEN byModel ELSE getActiveTarget(c)
        key == cacheKey(target.id, modelName)
        Has(e) == e.key = key
        created == IF \E i \in 1..Len(cache) : Has(cache[i]) THEN cache
                   ELSE Append(cache, [key |-> key, target |-> target.id,
                                       handler |-> NewProxyHandler(target, modelName,
                                                                   Len(cache) + 1)]) IN
    IF target = NoTarget
    THEN [ok |-> FALSE, cache |-> cache, handler |-> NoHandler, target |-> NoTarget]
    ELSE [ok |-> TRUE, cache |-> created,
          handler |-> Find(created, Has, [key |-> <<>>, target |-> <<>>,
                                          handler |-> NoHandler]).handler,
          target |-> target]

\* what an operation leaves in lastCall
NoHeader == [present |-> FALSE, value |-> <<>>]

Operation(op, arg, found, status, handler, target) ==
    [op |-> op, arg |-> arg, authorization |-> NoHeader, found |-> found,
     status |-> status, before |-> config, cacheBefore |-> proxyHandlerCache,
     handler |-> handler, target |-> target]

NoOperation ==
    [op |-> "none", arg |-> <<>>, authorization |-> NoHeader, found |-> FALSE,
     status |-> 0, before |-> DefaultConfig, cacheBefore |-> <<>>,
     handler |-> NoHandler, target |-> NoTarget]

\* String.prototype.replace with a string pattern: the first occurrence goes
RemoveFirst(value, piece) ==
    IF \E i \in 1..Len(value) : value[i] = piece
    THEN LET k == CHOOSE i \in 1..Len(value) :
                     value[i] = piece /\ \A j \in 1..(i - 1) : value[j] /= piece IN
         SubSeq(value, 1, k - 1) \o SubSeq(value, k + 1, Len(value))
    ELSE value

\* validateChatApiKey
validateChatApiKey(c, apiKey) ==
    IF c.proxy.chatApiKey = <<>> THEN TRUE ELSE apiKey = c.proxy.chatApiKey

\* the chat route up to the call of the handler: the key check, then the
\* handler for request.model || 'default'; the handler posts to its
\* targetApiUrl with its apiKey
ChatRoute(modelName, authorization) ==
    LET providedKey == RemoveFirst(authorization.value, "Bearer ")
        r == getProxyHandlerForModel(config, proxyHandlerCache,
                                     IF modelName = <<>> THEN <<"default">> ELSE modelName) IN
    IF /\ config.proxy.chatApiKey /= <<>>
       /\ (~authorization.present \/ providedKey = <<>>
           \/ ~validateChatApiKey(config, providedKey))
    THEN /\ lastCall' = [Operation("chat", modelName, FALSE, 401, NoHandler, NoTarget)
                         EXCEPT !.authorization = authorization]
         /\ proxyHandlerCache' = proxyHandlerCache
    ELSE IF ~r.ok
    THEN /\ lastCall' = [Operation("chat", modelName, FALSE, 503, NoHandler, NoTarget)
                         EXCEPT !.authorization = authorization]
         /\ proxyHandlerCache' = proxyHandlerCache
    ELSE /\ lastCall' = [Operation("chat", modelName, TRUE, 200, r.handler, r.target)
                         EXCEPT !.authorization = authorization]
         /\ proxyHandlerCache' = r.cache

\* no parseStream call and no second request going on
NoParse == [rest |-> <<>>, buffer |-> <<>>, yielded |-> <<>>, whole |-> <<>>, done |-> TRUE]
NoPeer == [pc |-> "none",
           request |-> [messages |-> <<>>, tools |-> <<>>, stream |-> TRUE],
           source |-> <<>>, messages |-> <<>>, round |-> 0, hasToolResponse |-> FALSE,
           fullResponse |-> <<>>, toolCallDetected |-> FALSE, bufferedChunks |-> <<>>,
           consumed |-> <<>>, emitted |-> <<>>]

-----------------------------------------------------------------------------
(* Inputs and specifications *)

\* a well-formed call object: {"function_call":{"name":"x"}}
CallText == <<LB, F1, F2, LB, NM, RB, RB>>

\* a call object with arguments: {"function_call":{"name":"x","arguments":{"name":"x"}}}
CallArgsText == <<LB, F1, F2, LB, NM, CM, AK, LB, NM, RB, RB, RB>>

\* a fenced code block holding prose
CodeBlockText == <<FN, PR, FN>>

\* the pieces backend texts are built from
Segments ==
    {<<PR>>, <<SP>>, <<LB>>, <<RB>>, <<FN>>, <<FW>>, <<F1, F2>>,
     CallText, CallArgsText, CodeBlockText}

RECURSIVE SegTexts(_)
SegTexts(n) ==
    IF n = 0 THEN {<<>>}
    ELSE LET prev == SegTexts(n - 1) IN
         prev \cup {t \o sg : t \in prev, sg \in Segments}

\* an object without the marker: {}
EmptyObject == <<LB, RB>>

\* an object with a name and no function_call: {"name":"x"}
NameObject == <<LB, NM, RB>>

\* the call in a fenced block marked json, as the prompt of older versions
\* asked for it
FencedCallText == <<PR, NL, FN, JS, NL>> \o CallText \o <<NL, FN>>

\* the pieces free texts for the extractor are built from
ExtractSegments ==
    {<<PR>>, <<SP>>, <<LB>>, <<RB>>, EmptyObject, NameObject, <<FN>>, <<JS>>, <<FW>>,
     CodeBlockText, CallText}

RECURSIVE ExtractSegTexts(_)
ExtractSegTexts(n) ==
    IF n = 0 THEN {<<>>}
    ELSE LET prev == ExtractSegTexts(n - 1) IN
         prev \cup {t \o sg : t \in prev, sg \in ExtractSegments}

\* texts that are one object {"function_call": {name, arguments}}, over the
\* values of name and the presence of arguments, with blanks or without
CallObjects ==
    { ws \o <<LB, F1, F2>> \o ws \o <<LB>> \o nameArgs \o <<RB>> \o ws \o <<RB>> \o ws :
        ws \in {<<>>, <<SP>>},
        nameArgs \in { <<nm>> \o args : nm \in {NM, NY, N5, NE, NB},
                                       args \in {<<>>, <<CM, AK, LB, RB>>,
                                                 <<CM, AK, LB, NY, RB>>} }
                    \cup {<<>>, <<AK, LB, NY, RB>>} }

\* a call object with text, brace groups or a code block around it
FramedCalls ==
    { pre \o mid \o CallText \o post :
        pre \in {<<>>, <<PR>>},
        mid \in {<<>>, <<SP>>, EmptyObject, <<LB, PR, RB>>},
        post \in {<<>>, <<PR>>, CodeBlockText} }
    \cup {FencedCallText, <<FN>> \o CallText \o <<FN>>,
          <<LB, FN>> \o CallText \o <<FN>>,
          <<PR, FN, PR, FN>> \o CallText}

\* the sentinel sentences with blanks around them, and texts close to them
SentinelTexts ==
    { pre \o <<S1>> \o dot \o post :
        pre \in {<<>>, <<SP>>, <<NL>>},
        dot \in {<<>>, <<DOT>>},
        post \in {<<>>, <<NL>>} }
    \cup {<<S1, DOT, DOT>>, <<PR, S1>>, <<S1, DOT>> \o CallText}

\* the texts the extractor is tried on
ExtractTexts ==
    ExtractSegTexts(MaxExtractSegs) \cup CallObjects \cup FramedCalls \cup SentinelTexts

\* the texts of the calls made between two calls on the text under test
OtherTexts == {<<PR>>, CallText}

\* a parameter schema: {"type":"object"}
ObjectSchema ==
    ObjVal(<<[key |-> <<"type">>, mser |-> <<"\"type\":\"object\"">>, val |-> StrVal("object")]>>)

\* a tool with a schema, a tool with the empty schema {}, a tool without parameters
Tool1 == [name |-> "get_weather", description |-> "d", parameters |-> ObjectSchema]
Tool2 == [name |-> "calculator", description |-> "c", parameters |-> ObjVal(<<>>)]
Tool3 == [name |-> "web_search", description |-> "w", parameters |-> Undef]

UserMsg == Msg("user", <<"hi">>, <<>>, "")
SystemMsg == Msg("system", <<"sys">>, <<>>, "")
AssistantCallMsg == Msg("assistant", <<>>, <<"get_weather">>, "")
ToolMsg == Msg("tool", <<"sunny">>, <<>>, "get_weather")
MsgKinds == {UserMsg, SystemMsg, AssistantCallMsg, ToolMsg}

RECURSIVE MsgSeqs(_)
MsgSeqs(n) ==
    IF n = 0 THEN {<<>>}
    ELSE LET prev == MsgSeqs(n - 1) IN
         prev \cup {ms \o <<m>> : ms \in prev, m \in MsgKinds}

InitLocals ==
    /\ messages = <<>>
    /\ source = backendText
    /\ pc = "init"
    /\ round = 0
    /\ hasToolResponse = FALSE
    /\ fullResponse = <<>>
    /\ toolCallDetected = FALSE
    /\ bufferedChunks = <<>>
    /\ emitted = <<>>
    /\ result = NoResult
    /\ error = "none"
    /\ consumed = <<>>
    /\ sent = <<>>
    /\ extractorCalls = <<>>
    /\ extractions = <<>>
    /\ executed = <<>>
    /\ compiled = <<>>
    /\ replyShape = "none"
    /\ unmatched = <<>>
    /\ res = NoResponse

\* the server as it starts without a configuration file, nothing else going on
ServerIdle ==
    /\ config = DefaultConfig
    /\ proxyHandlerCache = <<>>
    /\ uuids = 0
    /\ lastCall = NoOperation
    /\ parse = NoParse
    /\ peer = NoPeer

\* any request, on either handler
Init ==
    /\ request \in [messages : MsgSeqs(MaxMsgs),
                    tools : {<<>>, <<Tool1>>},
                    stream : BOOLEAN]
    /\ configMaxRounds \in {0, 1, -1}
    /\ backendText \in SegTexts(MaxReqSegs)
    /\ InitLocals
    /\ ServerIdle

Next ==
    \/ BeginStream
    \/ StreamDelta
    \/ StreamEnd
    \/ StreamError
    \/ BeginRequest
    \/ BackendReply
    \/ BackendError

Spec == Init /\ [][Next]_vars

\* the replies the rounds are followed on: empty, prose, a call, prose and a
\* call, a call with arguments, a call and a code block after it
RoundTexts == {<<>>, <<PR>>, CallText, <<PR>> \o CallText, CallArgsText,
               CallText \o CodeBlockText}

\* any request, on either handler, with any configured maximum of rounds
InitRounds ==
    /\ request \in [messages : MsgSeqs(MaxMsgs),
                    tools : {<<>>, <<Tool1>>},
                    stream : BOOLEAN]
    /\ configMaxRounds \in {0, 1, 2, -1}
    /\ backendText \in RoundTexts
    /\ InitLocals
    /\ ServerIdle

SpecRounds == InitRounds /\ [][Next]_vars

\* any request on the default maximum of rounds, the streamed reply holding
\* lines without content between its deltas
InitLines ==
    /\ request \in [messages : MsgSeqs(MaxMsgs),
                    tools : {<<>>, <<Tool1>>},
                    stream : BOOLEAN]
    /\ configMaxRounds = 0
    /\ backendText \in RoundTexts
    /\ InitLocals
    /\ ServerIdle

NextLines == Next \/ StreamUnmatched

SpecLines == InitLines /\ [][NextLines]_vars

\* a streaming request, with or without a tool-role message, over all texts
InitStream ==
    /\ request \in [messages : {<<UserMsg>>, <<UserMsg, AssistantCallMsg, ToolMsg>>},
                    tools : {<<Tool1>>},
                    stream : {TRUE}]
    /\ configMaxRounds = 0
    /\ backendText \in SegTexts(MaxSegs)
    /\ InitLocals
    /\ ServerIdle

NextStream ==
    \/ BeginStream
    \/ StreamDelta
    \/ StreamEnd
    \/ StreamError

SpecStream == InitStream /\ [][NextStream]_vars

-----------------------------------------------------------------------------
(* ToolConverter called on its own *)

\* mutant: the converter keeps the call it found last and returns it when
\* the text at hand holds none
ExtractEntry_KeepsLast(response) ==
    LET own == extractToolCallFromResponse(response)
        toolCall == IF ~own.found /\ extractions /= <<>>
                       /\ extractions[Len(extractions)].toolCall.found
                    THEN extractions[Len(extractions)].toolCall
                    ELSE own IN
    [response |-> response,
     id |-> Len(extractions) + 1,
     steps |-> ExtractSteps(response),
     toolCall |-> toolCall,
     textBefore |-> IF toolCall.found THEN extractTextBeforeToolCall(response)
                    ELSE <<>>]

\* what one use of the converter on a text gives: the steps and the result of
\* extractToolCallFromResponse and, for a call, extractTextBeforeToolCall
ExtractEntry(response) ==
    LET toolCall == extractToolCallFromResponse(response) IN
    [response |-> response,
     id |-> Len(extractions) + 1,
     steps |-> ExtractSteps(response),
     toolCall |-> toolCall,
     textBefore |-> IF toolCall.found THEN extractTextBeforeToolCall(response)
                    ELSE <<>>]

\* the converter is used on the text under test or on one of the other texts
ExtractToolCall ==
    /\ pc = "init"
    /\ Len(extractions) < MaxCalls
    /\ \E response \in {backendText} \cup OtherTexts :
          extractions' = Append(extractions, ExtractEntry(response))
    /\ UNCHANGED <<serverVars, request, messages, configMaxRounds, backendText, source, pc,
                   round, hasToolResponse, fullResponse, toolCallDetected,
                   bufferedChunks, emitted, result, error, consumed, sent,
                   extractorCalls, executed, compiled, replyShape, unmatched, res>>

\* convertToolsToSystemPrompt is called on the tool list of the request
CompilePrompt ==
    /\ pc = "init"
    /\ compiled = <<>>
    /\ compiled' = <<[tools |-> request.tools,
                      prompt |-> convertToolsToSystemPrompt(request.tools)]>>
    /\ UNCHANGED <<serverVars, request, messages, configMaxRounds, backendText, source, pc,
                   round, hasToolResponse, fullResponse, toolCallDetected,
                   bufferedChunks, emitted, result, error, consumed, sent,
                   extractorCalls, extractions, executed, replyShape, unmatched, res>>

\* the tool lists of at most n tools
RECURSIVE ToolLists(_)
ToolLists(n) ==
    IF n = 0 THEN {<<>>}
    ELSE LET shorter == ToolLists(n - 1) IN
         shorter \cup {Append(ts, t) : ts \in shorter, t \in {Tool1, Tool2, Tool3}}

\* the Prompt Compiler on its own, over all tool lists
InitPrompt ==
    /\ request \in [messages : {<<UserMsg>>}, tools : ToolLists(MaxTools), stream : {FALSE}]
    /\ configMaxRounds = 0
    /\ backendText = <<>>
    /\ InitLocals
    /\ ServerIdle

NextPrompt == CompilePrompt

SpecPrompt == InitPrompt /\ [][NextPrompt]_vars

\* the converter on its own, over all texts
InitExtract ==
    /\ request = [messages |-> <<UserMsg>>, tools |-> <<Tool1>>, stream |-> FALSE]
    /\ configMaxRounds = 0
    /\ backendText \in ExtractTexts
    /\ InitLocals
    /\ ServerIdle

NextExtract == ExtractToolCall

SpecExtract == InitExtract /\ [][NextExtract]_vars

-----------------------------------------------------------------------------
(* Vocabulary of the claims *)

\* the three kinds of emission events
IsContent(c) == c.content /= <<>> /\ c.tool_calls = <<>> /\ c.finish_reason = "null"
IsToolCall(c) == c.tool_calls /= <<>>
IsEnd(c) == c.finish_reason /= "null"

Content(text) == [content |-> text, tool_calls |-> <<>>, finish_reason |-> "null"]
ToolCallEvent(call) == [content |-> <<>>, tool_calls |-> <<call>>, finish_reason |-> "null"]
End(reason) == [content |-> <<>>, tool_calls |-> <<>>, finish_reason |-> reason]

\* the concatenation of the texts of the Content events of es, in order
RECURSIVE ContentsOf(_)
ContentsOf(es) ==
    IF es = <<>> THEN <<>>
    ELSE (IF IsContent(Head(es)) THEN Head(es).content ELSE <<>>) \o ContentsOf(Tail(es))

\* the round is a finalization round
Finalization == HasToolMessage(request.messages)

\* the events appended by the step
NewEvents == SubSeq(emitted', Len(emitted) + 1, Len(emitted'))
KeepsEvents == Len(emitted') >= Len(emitted) /\ SubSeq(emitted', 1, Len(emitted)) = emitted

\* the step consumes a delta; the delta
ConsumesDelta == Len(consumed') = Len(consumed) + 1
NewDelta == consumed'[Len(consumed')]

\* the step is the end of a stream whose source is exhausted
EndsStream == pc = "streaming" /\ pc' = "done"

\* the accumulated text with the span of the recognized call removed
CallRemoved(full) ==
    LET src == JsonSource(full) IN
    IF extractToolCallFromResponse(full).found
    THEN SubSeq(full, 1, src.from - 1) \o SubSeq(full, src.to + 1, Len(full))
    ELSE full

-----------------------------------------------------------------------------
(* Claims *)

\* C1: in a non-finalization streaming round the concatenation of the
\* emitted Content texts equals the accumulated text with only the recognized
\* call removed, nothing dropped and nothing emitted twice; stated on the case
\* the claim names: deltas were emitted in Passthrough, a later delta switched
\* the detector to Suspect, and a call was extracted at the end of the stream.
C1_ContentIsTextWithoutCall ==
    (/\ request.stream /\ pc = "done" /\ ~Finalization
     /\ toolCallDetected
     /\ Len(consumed) > Len(bufferedChunks)
     /\ extractToolCallFromResponse(fullResponse).found)
        => ContentsOf(emitted) = CallRemoved(fullResponse)

\* C2: no End event is emitted before the source has ended; a round whose
\* source ended without error has exactly one End event, the last event, and
\* its reason is tool_calls iff a ToolCall event was emitted, otherwise stop.
C2_ExactlyOneEndLast ==
    /\ (request.stream /\ pc /= "done")
          => \A i \in 1..Len(emitted) : ~IsEnd(emitted[i])
    /\ (request.stream /\ pc = "done")
          => /\ Len(emitted) >= 1
             /\ IsEnd(emitted[Len(emitted)])
             /\ \A i \in 1..(Len(emitted) - 1) : ~IsEnd(emitted[i])
             /\ emitted[Len(emitted)].finish_reason \in {"stop", "tool_calls"}
             /\ emitted[Len(emitted)].finish_reason = "tool_calls"
                   <=> \E i \in 1..Len(emitted) : IsToolCall(emitted[i])

C2_Witness ==
    /\ request.stream /\ pc = "done" /\ Len(consumed) >= 2
    /\ \E i \in 1..Len(emitted) : IsToolCall(emitted[i])

\* C3: when the Extractor succeeds at source exhaustion, the events emitted
\* from that point are Content(textBefore) only if textBefore is non-blank,
\* then one ToolCall, then End(tool_calls); no Content after the ToolCall.
C3_SuccessEvents ==
    [][(EndsStream /\ ~hasToolResponse /\ extractToolCallFromResponse(fullResponse).found)
        => LET textBefore == extractTextBeforeToolCall(fullResponse)
               call == ToolCallOf(extractToolCallFromResponse(fullResponse))
               n == Len(NewEvents) IN
           /\ KeepsEvents
           /\ n = (IF Trim(textBefore) /= <<>> THEN 3 ELSE 2)
           /\ NewEvents[n] = End("tool_calls")
           /\ NewEvents[n - 1] = ToolCallEvent(call)
           /\ n = 3 => NewEvents[1] = Content(textBefore)]_vars

C3_Witness ==
    /\ request.stream /\ pc = "done" /\ ~Finalization
    /\ extractToolCallFromResponse(fullResponse).found
    /\ JsonSource(fullResponse).to < Len(TrimRight(fullResponse))
    /\ Len(bufferedChunks) >= 2

\* C4: when the Extractor fails at source exhaustion, the events emitted from
\* that point are the buffered deltas, each once and in arrival order, as
\* Content events, then End(stop); in Passthrough nothing is buffered and
\* only End(stop) is emitted.
C4_FailureEvents ==
    [][(EndsStream /\ ~hasToolResponse /\ ~extractToolCallFromResponse(fullResponse).found)
        => LET n == Len(bufferedChunks) IN
           /\ KeepsEvents
           /\ ~toolCallDetected => n = 0
           /\ bufferedChunks = SubSeq(consumed, Len(consumed) - n + 1, Len(consumed))
           /\ Len(NewEvents) = n + 1
           /\ \A i \in 1..n : NewEvents[i] = Content(bufferedChunks[i])
           /\ NewEvents[n + 1] = End("stop")]_vars

C4_Witness ==
    /\ request.stream /\ pc = "done" /\ ~Finalization
    /\ ~extractToolCallFromResponse(fullResponse).found
    /\ toolCallDetected
    /\ Len(bufferedChunks) >= 2
    /\ Len(consumed) > Len(bufferedChunks)

\* C5: once the detector is in Suspect it stays in Suspect, and no event is
\* emitted for any later delta while the source has not ended.
C5_SuspectAbsorbing ==
    [][toolCallDetected
        => /\ toolCallDetected'
           /\ ConsumesDelta => (emitted' = emitted /\ bufferedChunks' = Append(bufferedChunks, NewDelta))]_vars

C5_Witness ==
    /\ pc = "streaming" /\ toolCallDetected
    /\ Len(bufferedChunks) >= 2
    /\ Len(emitted) >= 1

\* C6: in a non-finalization round a delta arriving in Passthrough is
\* emitted at once as Content iff the accumulated text including it,
\* trimmed, neither starts with an opening brace nor contains the quoted
\* literal "function_call"; otherwise the detector switches to Suspect and
\* the delta is buffered, not emitted.
C6_PassthroughRule ==
    [][(ConsumesDelta /\ ~hasToolResponse /\ ~toolCallDetected)
        => LET trimmed == Trim(fullResponse \o NewDelta) IN
           IF StartsWith(trimmed, LB) \/ IncludesQuotedMarker(trimmed)
           THEN /\ toolCallDetected'
                /\ emitted' = emitted
                /\ bufferedChunks' = Append(bufferedChunks, NewDelta)
           ELSE /\ ~toolCallDetected'
                /\ emitted' = Append(emitted, Content(NewDelta))
                /\ bufferedChunks' = bufferedChunks]_vars

C6_Witness ==
    /\ pc = "streaming" /\ toolCallDetected
    /\ Len(bufferedChunks) = 1
    /\ Len(emitted) >= 1
    /\ ~StartsWith(Trim(fullResponse), LB)

\* the compiled tool prompt occurs in the content of a message of ms
PromptIn(ms) ==
    LET prompt == convertToolsToSystemPrompt(request.tools) IN
    /\ prompt /= <<>>
    /\ \E i \in 1..Len(ms) : \E k \in 1..Len(ms[i].content) :
          /\ k + Len(prompt) - 1 <= Len(ms[i].content)
          /\ SubSeq(ms[i].content, k, k + Len(prompt) - 1) = prompt

C8_FinalizationStreamsThrough ==
    (Finalization /\ request.stream)
        => /\ bufferedChunks = <<>>
           /\ ~toolCallDetected
           /\ pc /= "done" => emitted = [i \in 1..Len(consumed) |-> Content(consumed[i])]
           /\ pc = "done" => emitted = [i \in 1..Len(consumed) |-> Content(consumed[i])]
                                        \o <<End("stop")>>

C8_Witness ==
    /\ Finalization /\ request.stream /\ pc = "done"
    /\ Len(consumed) >= 2
    /\ StartsWith(backendText, LB)
    /\ extractToolCallFromResponse(backendText).found

\* C9: for a backend text from which the Extractor recovers no call, under
\* every splitting into deltas, the Content events concatenate to the full
\* text and the round ends with End(stop).
C9_NoCallChunkingInvariant ==
    (request.stream /\ pc = "done" /\ ~extractToolCallFromResponse(backendText).found)
        => /\ ContentsOf(emitted) = backendText
           /\ emitted[Len(emitted)] = End("stop")
           /\ \A i \in 1..(Len(emitted) - 1) : IsContent(emitted[i])

C9_Witness ==
    /\ request.stream /\ pc = "done" /\ ~Finalization
    /\ ~extractToolCallFromResponse(backendText).found
    /\ Len(bufferedChunks) >= 1
    /\ Len(consumed) > Len(bufferedChunks)

\* C10: for a backend text that begins with an opening brace and from which
\* the Extractor recovers a call, under every splitting into deltas, a
\* non-finalization round emits no Content event, then the ToolCall with the
\* recovered name and arguments, then End(tool_calls).
C10_CallSurvivesFragmentation ==
    (request.stream /\ pc = "done" /\ ~Finalization
       /\ StartsWith(backendText, LB)
       /\ extractToolCallFromResponse(backendText).found)
        => emitted = <<ToolCallEvent(ToolCallOf(extractToolCallFromResponse(backendText))),
                       End("tool_calls")>>

-----------------------------------------------------------------------------
(* Vocabulary of the claims about the Extractor *)

\* the uses of the converter made so far
Extracted == {extractions[i] : i \in 1..Len(extractions)}

\* opening braces minus closing braces among the first k tokens of t
RECURSIVE Depth(_, _)
Depth(t, k) ==
    IF k = 0 THEN 0
    ELSE Depth(t, k - 1) + (IF t[k] = LB THEN 1 ELSE IF t[k] = RB THEN -1 ELSE 0)

\* t[i..j] is a balanced brace group: it opens at i, closes at j and not before
BalancedGroup(t, i, j) ==
    /\ i < j /\ t[i] = LB /\ t[j] = RB
    /\ Depth(t, j) = Depth(t, i - 1)
    /\ \A k \in i..(j - 1) : Depth(t, k) > Depth(t, i - 1)

\* the top-level balanced groups of t, as spans
TopLevelGroups(t) ==
    { <<i, j>> \in (1..Len(t)) \X (1..Len(t)) :
        BalancedGroup(t, i, j) /\ Depth(t, i - 1) = 0 }

\* the top-level groups whose text contains the marker
MarkerGroups(t) ==
    { g \in TopLevelGroups(t) : IncludesMarker(SubSeq(t, g[1], g[2])) }

\* the leftmost of a non-empty set of spans
FirstSpan(gs) == CHOOSE g \in gs : \A h \in gs : g[1] <= h[1]

\* t holds a balanced group, at any depth, that contains the marker
HasMarkerGroup(t) ==
    \E i, j \in 1..Len(t) :
        BalancedGroup(t, i, j) /\ IncludesMarker(SubSeq(t, i, j))

\* the trimmed text starts with an opening and ends with a closing brace
BraceToBrace(t) == StartsWith(Trim(t), LB) /\ EndsWith(Trim(t), RB)

IsSentinel(t) == Trim(t) \in {Sentinel, SentinelNoPeriod}

\* t holds a fence, text and a closing fence
HasCodeBlock(t) == AnyFenceMatch(t).found

-----------------------------------------------------------------------------
(* C11 *)

\* C11: for a text that does not run from brace to brace, the result of the
\* Extractor is the result for the first top-level balanced brace group that
\* contains the marker function_call, whatever groups without the marker
\* stand before it.
C11_FirstMarkerGroupAccepted ==
    \A e \in Extracted :
        (/\ ~IsSentinel(e.response)
         /\ ~BraceToBrace(e.response)
         /\ MarkerGroups(e.response) /= {})
        => LET g == FirstSpan(MarkerGroups(e.response)) IN
           e.toolCall = extractToolCallFromResponse(SubSeq(e.response, g[1], g[2]))

-----------------------------------------------------------------------------
(* C12 *)

\* C12: a text without a balanced brace group containing function_call gives
\* no call.
C12_NoMarkerGroupNoCall ==
    \A e \in Extracted :
        ~HasMarkerGroup(e.response) => ~e.toolCall.found

\* C12 witness: a text with a fenced code block and no marker group went
\* through JSON.parse and gave no call
C12_Witness ==
    \E e \in Extracted :
        /\ ~HasMarkerGroup(e.response)
        /\ HasCodeBlock(e.response)
        /\ e.steps[Len(e.steps)] = "parse"
        /\ ~e.toolCall.found

-----------------------------------------------------------------------------
(* C13 *)

\* C13: a returned call has a name of text type, and when the candidate has
\* no arguments the returned arguments are the encoding of the empty object.
C13_NameIsText ==
    \A e \in Extracted :
        e.toolCall.found
        => /\ e.toolCall.name.k = "str"
           /\ e.toolCall.name.s /= ""
           /\ LET fc == Get(JSONParse(JsonContent(e.response)).val, KeyFunctionCall) IN
              Get(fc, KeyArguments) = Undef => e.toolCall.arguments = <<LB, RB>>

-----------------------------------------------------------------------------
(* C14 *)

\* C14: for a recovered call textBefore is the trimmed text before the span
\* the call was recognized in, or before the fenced code block that holds
\* that span; so it never holds the JSON of the call.
C14_TextBeforeIsBeforeSpan ==
    \A e \in Extracted :
        e.toolCall.found
        => LET src == JsonSource(e.response)
               blk == AnyFenceMatch(e.response) IN
           \/ e.textBefore = Trim(SubSeq(e.response, 1, src.from - 1))
           \/ /\ blk.found /\ blk.from <= src.from /\ src.to <= blk.to
              /\ e.textBefore = Trim(SubSeq(e.response, 1, blk.from - 1))

-----------------------------------------------------------------------------
(* C15 *)

\* C15: on the sentinel sentence, with or without its period and with blanks
\* around it, the Extractor returns none after the sentinel test alone.
C15_SentinelGuard ==
    \A e \in Extracted :
        IsSentinel(e.response)
        => ~e.toolCall.found /\ e.steps = <<"sentinel">>

\* C15 witness: the Extractor was used on the sentence without period with
\* blanks around it
C15_Witness ==
    \E e \in Extracted :
        /\ Trim(e.response) = SentinelNoPeriod
        /\ e.response /= SentinelNoPeriod
        /\ ~e.toolCall.found

-----------------------------------------------------------------------------
(* C16 *)

\* the text is one JSON object whose only member is function_call, with a
\* non-empty text as name and an object as arguments
IsCallObject(t) ==
    LET p == JSONParse(t)
        fc == Get(p.val, KeyFunctionCall) IN
    /\ p.ok
    /\ Len(p.val.members) = 1
    /\ fc.k = "obj"
    /\ Get(fc, KeyName).k = "str" /\ Get(fc, KeyName).s /= ""
    /\ Get(fc, KeyArguments).k = "obj"

-----------------------------------------------------------------------------
(* C17 *)

-----------------------------------------------------------------------------
(* Vocabulary of the claims about the rounds *)

\* the tool-role messages of a conversation
IsToolRole(m) == m.role = "tool"
ToolMessages(ms) == SelectSeq(ms, IsToolRole)

\* the handler has returned a call to its caller
ToolCallReturned ==
    /\ pc = "done"
    /\ IF request.stream
       THEN /\ Len(emitted) >= 2
            /\ IsToolCall(emitted[Len(emitted) - 1])
            /\ emitted[Len(emitted)] = End("tool_calls")
       ELSE /\ result.finish_reason = "tool_calls"
            /\ Len(result.tool_calls) = 1

\* the handler has returned a plain completion
Completed ==
    /\ pc = "done"
    /\ IF request.stream
       THEN emitted /= <<>> /\ emitted[Len(emitted)] = End("stop")
       ELSE result.finish_reason = "stop" /\ result.tool_calls = <<>>

RoundLimitExceeded == pc = "failed" /\ error = "MaxRoundsExceeded"

\* the rounds the handler may use: the configured maximum, 10 for none or 0
RoundBudget == IF configMaxRounds = 0 THEN 10 ELSE configMaxRounds

-----------------------------------------------------------------------------
(* C18 *)

-----------------------------------------------------------------------------
(* C19 *)

-----------------------------------------------------------------------------
(* C20 *)

\* C20: the round counter counts the loop iterations: it is 1 after the
\* first backend call and never above the round budget.
C20_RoundCounterCounts ==
    /\ round = Len(sent)
    /\ RoundBudget >= 0 => round <= RoundBudget

-----------------------------------------------------------------------------
(* C21 *)

\* the reply holds a call the handler looks for: the round is not a
\* finalization round and the Extractor recovers a call from the reply
CallInReply == ~Finalization /\ extractToolCallFromResponse(fullResponse).found

-----------------------------------------------------------------------------
(* Vocabulary of the claims about the prompt and the payload *)

\* the places of the messages ms where the text p starts
Occurrences(ms, p) ==
    UNION {{<<i, k>> : k \in {j \in 1..Len(ms[i].content) :
                                /\ j + Len(p) - 1 <= Len(ms[i].content)
                                /\ SubSeq(ms[i].content, j, j + Len(p) - 1) = p}} :
           i \in 1..Len(ms)}

IsSystemRole(m) == m.role = "system"
HasSystemMessage(ms) == \E i \in 1..Len(ms) : IsSystemRole(ms[i])
FirstSystemIndex(ms) ==
    CHOOSE i \in 1..Len(ms) :
        IsSystemRole(ms[i]) /\ \A j \in 1..(i - 1) : ~IsSystemRole(ms[j])

\* the request's messages as they are sent when nothing is injected
PreparedRequest == prepareMessagesForTarget(request.messages)

-----------------------------------------------------------------------------
(* C22 *)

\* C22: for a request with tools and no tool-role message the compiled
\* prompt occurs exactly once in the messages sent to the backend: at the end
\* of the first system message, all else unchanged, or as a new first system
\* message before the request's messages; the backend is called at most once,
\* so no later round holds it twice.
C22_PromptInjectedOnce ==
    (request.tools /= <<>> /\ ~Finalization)
    => /\ Len(sent) <= 1
       /\ \A k \in 1..Len(sent) :
             LET prompt == convertToolsToSystemPrompt(request.tools)
                 payload == sent[k] IN
             /\ Cardinality(Occurrences(payload, prompt)) = 1
             /\ IF HasSystemMessage(request.messages)
                THEN LET f == FirstSystemIndex(request.messages) IN
                     /\ Len(payload) = Len(request.messages)
                     /\ payload[f].role = "system"
                     /\ payload[f].content
                           = request.messages[f].content \o <<"\n\n">> \o prompt
                     /\ \A i \in 1..Len(payload) :
                           i /= f => payload[i] = PreparedRequest[i]
                ELSE payload = <<Msg("system", prompt, <<>>, "")>> \o PreparedRequest

\* C22 witness: the request holds a system message after a user message and
\* tools, and its messages went to the backend
C22_Witness ==
    /\ request.tools /= <<>>
    /\ request.messages = <<UserMsg, SystemMsg>>
    /\ Len(sent) = 1
    /\ Cardinality(Occurrences(sent[1], convertToolsToSystemPrompt(request.tools))) = 1

-----------------------------------------------------------------------------
(* C23 *)

\* C23 as stated: for an empty tool list the prompt is the empty text and
\* the messages sent have the count, the roles and the order of the
\* request's, with the system messages as they were.
C23_SameCountRolesOrder ==
    request.tools = <<>>
    => /\ convertToolsToSystemPrompt(request.tools) = <<>>
       /\ \A k \in 1..Len(sent) :
             /\ Len(sent[k]) = Len(request.messages)
             /\ \A i \in 1..Len(sent[k]) :
                   /\ sent[k][i].role = request.messages[i].role
                   /\ IsSystemRole(request.messages[i])
                         => sent[k][i].content = request.messages[i].content

\* C23 amended: for an empty tool list the prompt is the empty text, the
\* local messages are the request's, and the messages sent have the count
\* and the order of the request's; no system message is created or altered;
\* every message keeps its role except a tool-role message, which is sent
\* with role user.
C23_NoSystemMessageTouched ==
    request.tools = <<>>
    => /\ convertToolsToSystemPrompt(request.tools) = <<>>
       /\ pc /= "init" => messages = request.messages
       /\ \A k \in 1..Len(sent) :
             /\ Len(sent[k]) = Len(request.messages)
             /\ \A i \in 1..Len(sent[k]) :
                   LET m == request.messages[i] IN
                   /\ IsSystemRole(sent[k][i]) <=> IsSystemRole(m)
                   /\ IsSystemRole(m) => sent[k][i].content = m.content
                   /\ sent[k][i].role = IF IsToolRole(m) THEN "user" ELSE m.role
                   /\ (~IsToolRole(m) /\ m.tool_calls = <<>>)
                         => sent[k][i].content = m.content

\* C23 witness: a request without tools holding a system message went to the
\* backend
C23_Witness ==
    /\ request.tools = <<>>
    /\ request.messages = <<SystemMsg, UserMsg>>
    /\ Len(sent) = 1
    /\ sent[1] = <<SystemMsg, UserMsg>>

-----------------------------------------------------------------------------
(* C24 *)

\* what the prompt says of one tool: name, description and, for a tool with
\* parameters, the serialized schema
ToolBlock(tool) ==
    <<"Function: ", tool.name, "Description: ", tool.description>>
    \o (IF tool.parameters.k /= "undef"
        THEN <<"Parameters: ">> \o tool.parameters.ser ELSE <<>>)

\* the blocks of the tools occur in the prompt one after the other, from
\* position from on
RECURSIVE BlocksInOrder(_, _, _)
BlocksInOrder(prompt, tools, from) ==
    \/ tools = <<>>
    \/ /\ tools /= <<>>
       /\ LET block == ToolBlock(Head(tools)) IN
          \E k \in from..(Len(prompt) - Len(block) + 1) :
             /\ SubSeq(prompt, k, k + Len(block) - 1) = block
             /\ BlocksInOrder(prompt, Tail(tools), k + Len(block))

\* how often the piece occurs in the prompt
CountIn(prompt, piece) == Cardinality({k \in 1..Len(prompt) : prompt[k] = piece})

\* C24: the prompt compiled for a non-empty tool list holds, for each tool
\* and in list order, its name, its description and its serialized schema,
\* one block per tool, and holds the function_call format instruction once.
C24_PromptListsToolsInOrder ==
    \A i \in 1..Len(compiled) :
       compiled[i].tools /= <<>>
       => /\ BlocksInOrder(compiled[i].prompt, compiled[i].tools, 1)
          /\ CountIn(compiled[i].prompt, "Function: ") = Len(compiled[i].tools)
          /\ CountIn(compiled[i].prompt, FormatInstruction) = 1

\* C24 witness: a prompt was compiled for three different tools, the last
\* without parameters
C24_Witness ==
    /\ compiled /= <<>>
    /\ compiled[1].tools = <<Tool2, Tool1, Tool3>>
    /\ CountIn(compiled[1].prompt, FormatInstruction) = 1

-----------------------------------------------------------------------------
(* C25 *)

\* the payloads posted to the backend, in order
Payloads == [k \in 1..Len(sent) |-> TargetPayload(sent[k], request.stream)]

-----------------------------------------------------------------------------
(* C26 *)

\* the reply shapes that carry a known content field
KnownFieldShapes == {"choices", "delta", "message", "response"}

\* C26: a non-streaming reply that carries a text in one of the known
\* content fields ends the request with that text as the backend's text; a
\* reply that carries neither such a field nor an error field fails the
\* request with the unexpected-format error and no completion.
C26_KnownFieldsReturned ==
    /\ (replyShape \in KnownFieldShapes /\ backendText /= <<>>)
       => /\ pc = "done"
          /\ fullResponse = backendText
    /\ replyShape = "other"
       => /\ pc = "failed"
          /\ error = "UnexpectedResponseFormat"
          /\ result = NoResult

-----------------------------------------------------------------------------
(* Vocabulary of the claims about errors *)

\* the backend's streamed reply held lines and none of them carried content
NoLineMatched == request.stream /\ unmatched /= <<>> /\ backendText = <<>>

\* the stream of events ended normally
EndedWithStop == pc = "done" /\ emitted /= <<>> /\ emitted[Len(emitted)] = End("stop")

\* a line of the streamed reply carried an error object
ErrorLineSeen == \E i \in 1..Len(unmatched) : unmatched[i] = "error"

\* what the handler has given its caller holds no completion and no call
NothingReturned ==
    /\ result = NoResult
    /\ \A i \in 1..Len(emitted) : ~IsToolCall(emitted[i]) /\ ~IsEnd(emitted[i])

-----------------------------------------------------------------------------
(* C27 *)

\* C27: a streamed reply in which no line carries a known content field does
\* not end with a normal End(stop) and no content: once the reply is
\* exhausted the request has failed with an unexpected-shape error.
C27_NoMatchIsFatal ==
    NoLineMatched
    => /\ ~EndedWithStop
       /\ pc \notin {"streaming"} => pc = "failed"

-----------------------------------------------------------------------------
(* C28 *)

\* C28: a failed backend call and a reply that carries an error field end
\* the request in an error: no completion and no call is returned, the
\* Extractor is not run and the backend is called once.
C28_BackendErrorIsFatal ==
    /\ (replyShape = "error" \/ (pc = "failed" /\ error = "BackendError"))
       => /\ pc = "failed"
          /\ error \in {"TargetLLMError", "BackendError"}
          /\ NothingReturned
          /\ extractorCalls = <<>>
          /\ Len(sent) = 1
    /\ ErrorLineSeen
       => /\ pc /= "done"
          /\ pc = "failed" => NothingReturned /\ extractorCalls = <<>> /\ Len(sent) = 1

-----------------------------------------------------------------------------
(* C29 *)

\* the chunks the handler has yielded, as the route writes them
WrittenChunks == [i \in 1..Len(emitted) |-> DataEvent(emitted[i])]

\* how many end-of-stream lines the body holds
SentinelCount == Cardinality({i \in 1..Len(res.body) : res.body[i] = DoneEvent})

\* C29: a streaming request that fails after a chunk was written keeps its
\* status and ends with the chunks, one error event and the end-of-stream
\* line; one that fails before any write is answered with status 500 and a
\* structured error; a streaming response that wrote a chunk holds no
\* end-of-stream line until it ends and then exactly one, as its last write.
C29_StreamErrorInBand ==
    request.stream
    => /\ (pc = "failed" /\ emitted /= <<>>)
          => /\ res.status = 200
             /\ res.ended
             /\ res.body = WrittenChunks \o <<ErrorEvent, DoneEvent>>
       /\ (pc = "failed" /\ emitted = <<>>)
          => /\ res.status = 500
             /\ res.ended
             /\ res.body = <<JsonBody("stream_error")>>
       /\ emitted /= <<>>
          => /\ SubSeq(res.body, 1, Len(emitted)) = WrittenChunks
             /\ IF res.ended
                THEN SentinelCount = 1 /\ res.body[Len(res.body)] = DoneEvent
                ELSE SentinelCount = 0
       /\ res.ended <=> pc \in {"done", "failed"}

\* C29 witness: the backend stream broke after a chunk had been written
C29_Witness ==
    /\ request.stream
    /\ pc = "failed"
    /\ Len(emitted) >= 1
    /\ res.status = 200
    /\ res.body[Len(res.body) - 1] = ErrorEvent
    /\ res.body[Len(res.body)] = DoneEvent

-----------------------------------------------------------------------------
(* C30 *)

\* the trimmed text before the call of the reply t: before the span the call
\* was recognized in, or before the fenced code block that holds that span
IsTextBeforeCall(text, t) ==
    LET src == JsonSource(t)
        blk == AnyFenceMatch(t) IN
    \/ text = Trim(SubSeq(t, 1, src.from - 1))
    \/ /\ blk.found /\ blk.from <= src.from /\ src.to <= blk.to
       /\ text = Trim(SubSeq(t, 1, blk.from - 1))

\* C30: the one choice of a successful non-streaming response has finish
\* reason tool_calls exactly when its message carries tool_calls; it then
\* carries one call, and its content is the text before the call when that is
\* not blank and null when it is; otherwise the finish reason is stop and the
\* message is the backend's text without tool_calls.
C30_ResponseShape ==
    (pc = "done" /\ ~request.stream)
    => /\ result.finish_reason = "tool_calls" <=> result.tool_calls /= <<>>
       /\ result.tool_calls /= <<>>
          => /\ Len(result.tool_calls) = 1
             /\ IF result.null_content
                THEN IsTextBeforeCall(<<>>, fullResponse)
                ELSE /\ Trim(result.content) /= <<>>
                     /\ IsTextBeforeCall(Trim(result.content), fullResponse)
       /\ result.tool_calls = <<>>
          => /\ result.finish_reason = "stop"
             /\ ~result.null_content
             /\ result.content = fullResponse

-----------------------------------------------------------------------------
(* the server: admin and chat operations *)

\* the ids uuidv4 gives, one after the other
UuidNames == <<"u1", "u2", "u3", "u4", "u5">>
uuidv4(n) == <<UuidNames[n]>>

\* the target the constructor makes from the environment
EnvTarget == Target(<<"env", "-", "default">>, "Environment Default", "urlEnv", "keyEnv",
                    <<"default">>, TRUE, 1)
EnvConfig == [DefaultConfig EXCEPT !.targets = <<EnvTarget>>,
                                   !.proxy.defaultTarget = EnvTarget.id]

\* bodies of POST /admin/targets
TargetBodies ==
    { [name |-> "A", url |-> "urlA", apiKey |-> "keyA", model |-> <<"m">>,
       enabled |-> TRUE, priority |-> 2],
      [name |-> "B", url |-> "urlB", apiKey |-> "keyB", model |-> <<"x">>,
       enabled |-> FALSE, priority |-> 0] }

\* bodies of PUT /admin/targets/:id
TargetUpdates ==
    << [url |-> "urlNew", apiKey |-> "keyNew"],
       [id |-> <<"other">>, enabled |-> FALSE] >>

\* ids a request can name: those of the targets and one of no target
RequestIds == {config.targets[i].id : i \in 1..Len(config.targets)} \cup {<<"missing">>}

\* models a chat request can name
ModelNames == {<<>>, <<"x">>, <<"m", "-", "x">>}

ChatApiKeys == {<<>>, <<"sec", "ret">>}

\* Authorization headers of a chat request, their values in pieces
AuthHeaders ==
    { NoHeader,
      [present |-> TRUE, value |-> <<"Bearer ", "sec", "ret">>],
      [present |-> TRUE, value |-> <<"Bearer ", "wrong">>],
      [present |-> TRUE, value |-> <<"Bearer ">>],
      [present |-> TRUE, value |-> <<"sec", "ret">>],
      [present |-> TRUE, value |-> <<"sec", "Bearer ", "ret">>] }

\* POST /admin/targets
CreateTarget ==
    /\ Len(config.targets) < MaxTargets
    /\ uuids < MaxUuids
    /\ \E body \in TargetBodies :
          /\ config' = createTarget(config, body, uuidv4(uuids + 1))
          /\ lastCall' = Operation("createTarget", uuidv4(uuids + 1), TRUE, 201,
                                   NoHandler, NoTarget)
    /\ uuids' = uuids + 1
    /\ UNCHANGED <<handlerVars, proxyHandlerCache, parse, peer>>

\* PUT /admin/targets/:id
UpdateTarget ==
    /\ \E id \in RequestIds : \E k \in 1..Len(TargetUpdates) :
          LET r == updateTarget(config, id, TargetUpdates[k]) IN
          /\ config' = r.config
          /\ lastCall' = Operation("updateTarget", id, r.found,
                                   IF r.found THEN 200 ELSE 404, NoHandler, NoTarget)
    /\ UNCHANGED <<handlerVars, proxyHandlerCache, uuids, parse, peer>>

\* DELETE /admin/targets/:id
DeleteTarget ==
    /\ \E id \in RequestIds :
          LET r == deleteTarget(config, id) IN
          /\ config' = r.config
          /\ lastCall' = Operation("deleteTarget", id, r.found,
                                   IF r.found THEN 200 ELSE 404, NoHandler, NoTarget)
    /\ UNCHANGED <<handlerVars, proxyHandlerCache, uuids, parse, peer>>

\* POST /admin/targets/:id/set-default
SetDefault ==
    /\ \E id \in RequestIds :
          LET r == SetDefaultRoute(config, id) IN
          /\ config' = r.config
          /\ lastCall' = Operation("setDefault", id, r.found,
                                   IF r.found THEN 200 ELSE 404, NoHandler, NoTarget)
    /\ UNCHANGED <<handlerVars, proxyHandlerCache, uuids, parse, peer>>

\* a call of getActiveTarget
GetActiveTarget ==
    /\ lastCall.op /= "getActiveTarget"
    /\ lastCall' = Operation("getActiveTarget", <<>>, getActiveTarget(config) /= NoTarget,
                             0, NoHandler, getActiveTarget(config))
    /\ UNCHANGED <<handlerVars, config, proxyHandlerCache, uuids, parse, peer>>

\* PUT /admin/config/proxy with a chat API key
UpdateProxyConfig ==
    /\ \E key \in ChatApiKeys :
          /\ key /= config.proxy.chatApiKey
          /\ config' = [config EXCEPT !.proxy.chatApiKey = key]
          /\ lastCall' = Operation("updateProxyConfig", key, TRUE, 200, NoHandler, NoTarget)
    /\ UNCHANGED <<handlerVars, proxyHandlerCache, uuids, parse, peer>>

\* POST /v1/chat/completions
ChatRequest ==
    /\ \E modelName \in ModelNames : \E authorization \in AuthHeaders :
          ChatRoute(modelName, authorization)
    /\ Len(proxyHandlerCache') <= MaxHandlers
    /\ UNCHANGED <<handlerVars, config, uuids, parse, peer>>

\* no request in the handler
HandlerIdle ==
    /\ request = [messages |-> <<UserMsg>>, tools |-> <<>>, stream |-> FALSE]
    /\ configMaxRounds = 0
    /\ backendText = <<>>
    /\ InitLocals

\* the server as it starts without a configuration file or from the environment
InitAdmin ==
    /\ HandlerIdle
    /\ config \in {DefaultConfig, EnvConfig}
    /\ proxyHandlerCache = <<>>
    /\ uuids = 0
    /\ lastCall = NoOperation
    /\ parse = NoParse
    /\ peer = NoPeer

NextAdmin ==
    \/ CreateTarget
    \/ UpdateTarget
    \/ DeleteTarget
    \/ SetDefault
    \/ GetActiveTarget

SpecAdmin == InitAdmin /\ [][NextAdmin]_vars

\* targets of a configuration file
FileTargets ==
    << Target(<<"t">>, "A", "urlA", "keyA", <<"m">>, TRUE, 1),
       Target(<<"t", "-", "m">>, "B", "urlB", "keyB", <<"x">>, TRUE, 2) >>

\* the configurations the server starts with: none, the environment's, a file's
StartConfigs ==
    { DefaultConfig, EnvConfig,
      [DefaultConfig EXCEPT !.targets = FileTargets] }

InitChat ==
    /\ HandlerIdle
    /\ config \in StartConfigs
    /\ proxyHandlerCache = <<>>
    /\ uuids = 0
    /\ lastCall = NoOperation
    /\ parse = NoParse
    /\ peer = NoPeer

NextChat ==
    \/ ChatRequest
    \/ UpdateTarget
    \/ UpdateProxyConfig

SpecChat == InitChat /\ [][NextChat]_vars

-----------------------------------------------------------------------------
(* Claims C37 and C38: the target list *)

\* the ids of the targets of a configuration, in order
TargetIds(c) == [i \in 1..Len(c.targets) |-> c.targets[i].id]

\* the enabled targets of a configuration
EnabledTargets(c) == {c.targets[i] : i \in {k \in 1..Len(c.targets) : c.targets[k].enabled}}

\* C37: after createTarget, updateTarget, deleteTarget and set-default
\* operations the default target is unset or the id of an existing target, the
\* ids of the targets are pairwise distinct, updateTarget has not changed any
\* id, and updateTarget or deleteTarget on an unknown id reported failure and
\* left the targets and the default target as they were
C37_TargetsWellFormed ==
    /\ \/ config.proxy.defaultTarget = <<>>
       \/ \E i \in 1..Len(config.targets) : config.targets[i].id = config.proxy.defaultTarget
    /\ \A i, j \in 1..Len(config.targets) :
          i /= j => config.targets[i].id /= config.targets[j].id
    /\ (lastCall.op = "updateTarget" /\ lastCall.found)
          => TargetIds(config) = TargetIds(lastCall.before)
    /\ lastCall.op \in {"updateTarget", "deleteTarget"}
          => (lastCall.found <=> \E i \in 1..Len(lastCall.before.targets) :
                                    lastCall.before.targets[i].id = lastCall.arg)
    /\ (lastCall.op \in {"updateTarget", "deleteTarget"} /\ ~lastCall.found)
          => config = lastCall.before

\* C37 witness: the default target was deleted while another target stays
C37_Witness ==
    /\ lastCall.op = "deleteTarget"
    /\ lastCall.found
    /\ lastCall.before.proxy.defaultTarget = lastCall.arg
    /\ Len(lastCall.before.targets) = 2
    /\ Len(config.targets) = 1
    /\ config.proxy.defaultTarget = <<>>

\* C38: getActiveTarget never returns a disabled target; it returns the default
\* target when that exists and is enabled, otherwise an enabled target of the
\* lowest priority value, and nothing exactly when no target is enabled; the
\* configuration is the same after the call
C38_ActiveTargetChoice ==
    lastCall.op = "getActiveTarget" =>
        LET t == lastCall.target
            IsDefault(u) == u.id = config.proxy.defaultTarget
            default == Find(config.targets, IsDefault, NoTarget) IN
        /\ t /= NoTarget => t \in EnabledTargets(config)
        /\ (config.proxy.defaultTarget /= <<>> /\ default /= NoTarget /\ default.enabled)
              => t = default
        /\ ~(config.proxy.defaultTarget /= <<>> /\ default /= NoTarget /\ default.enabled)
              => /\ t = NoTarget <=> EnabledTargets(config) = {}
                 /\ t /= NoTarget => \A u \in EnabledTargets(config) : t.priority <= u.priority
        /\ lastCall.found <=> t /= NoTarget
        /\ config = lastCall.before

\* C38 witness: the default target is disabled and of the lowest priority
\* value, and an enabled target was returned
C38_Witness ==
    /\ lastCall.op = "getActiveTarget"
    /\ lastCall.target /= NoTarget
    /\ \E i \in 1..Len(config.targets) :
          /\ config.targets[i].id = config.proxy.defaultTarget
          /\ ~config.targets[i].enabled
          /\ config.targets[i].priority < lastCall.target.priority

-----------------------------------------------------------------------------
(* Claims C31, C36 and C39: the chat route and the handler cache *)

\* the last operation was a chat request
IsChat == lastCall.op = "chat"

\* the token a request presents: the value of its Authorization header, without
\* the scheme when the value starts with one; nothing without a header
PresentedToken(authorization) ==
    IF ~authorization.present THEN <<>>
    ELSE IF authorization.value /= <<>> /\ Head(authorization.value) = "Bearer "
    THEN Tail(authorization.value)
    ELSE authorization.value

\* the target a chat request for a model resolves to, by the stored models and
\* the targets' models, else the active target
ResolvedTarget(c, modelName) ==
    IF getTargetForModel(c, modelName) /= NoTarget THEN getTargetForModel(c, modelName)
    ELSE getActiveTarget(c)

\* C39: with a chat API key configured, a chat request whose token is missing
\* or differs from the key is answered 401 and leaves the handler cache as it
\* was, no handler being looked up; with no key configured no request is
\* answered 401
C39_KeyCheckedFirst ==
    IsChat =>
        /\ (config.proxy.chatApiKey /= <<>>
            /\ PresentedToken(lastCall.authorization) /= config.proxy.chatApiKey)
              => /\ lastCall.status = 401
                 /\ lastCall.handler = NoHandler
                 /\ proxyHandlerCache = lastCall.cacheBefore
        /\ config.proxy.chatApiKey = <<>> => lastCall.status /= 401

\* the model a chat request hands to getProxyHandlerForModel
RequestedModel == IF lastCall.arg = <<>> THEN <<"default">> ELSE lastCall.arg

\* the entries of the cache a handler is stored in
EntriesOf(handler) ==
    {i \in 1..Len(proxyHandlerCache) : proxyHandlerCache[i].handler = handler}

\* C36: the handler of an admitted chat request, when it is one created for
\* the target and the model of the request, posts to the URL and with the API
\* key that this target has in the configuration at the time of the request
C36_CurrentTargetUsed ==
    (/\ IsChat
     /\ lastCall.status = 200
     /\ \A i \in EntriesOf(lastCall.handler) :
           /\ proxyHandlerCache[i].target = lastCall.target.id
           /\ proxyHandlerCache[i].handler.targetModel = RequestedModel) =>
        /\ lastCall.target = ResolvedTarget(config, RequestedModel)
        /\ lastCall.handler.targetApiUrl = lastCall.target.url
        /\ lastCall.handler.apiKey = lastCall.target.apiKey

\* C31: the cache holds one handler per key, a request receives the handler
\* stored under the key of its target and model, and that handler was created
\* for this target and this model
C31_CreateIfAbsent ==
    /\ \A i, j \in 1..Len(proxyHandlerCache) :
          i /= j => /\ proxyHandlerCache[i].key /= proxyHandlerCache[j].key
                    /\ proxyHandlerCache[i].handler /= proxyHandlerCache[j].handler
    /\ (IsChat /\ lastCall.status = 200) =>
          /\ EntriesOf(lastCall.handler) /= {}
          /\ \A i \in EntriesOf(lastCall.handler) :
                /\ proxyHandlerCache[i].key = cacheKey(lastCall.target.id, RequestedModel)
                /\ proxyHandlerCache[i].target = lastCall.target.id
                /\ proxyHandlerCache[i].handler.targetModel = RequestedModel

-----------------------------------------------------------------------------
(* the model registry *)

\* the models the backends list
Model(id, provider) == [id |-> id, name |-> id, provider |-> provider]

ModelPool == {Model(<<"a">>, "A"), Model(<<"b">>, "A"), Model(<<"a">>, "B")}

\* the lists fetchModelsFromAllTargets can return: up to n models of the
\* pool, none twice
ModelLists(n) ==
    {l \in UNION {[1..k -> ModelPool] : k \in 0..n} :
        \A i, j \in 1..Len(l) : i /= j => l[i] /= l[j]}

\* GET /v1/models
ModelsRequest ==
    /\ \E freshModels \in ModelLists(MaxModels) :
          /\ config' = ModelsRoute(config, freshModels)
          /\ lastCall' = Operation("models", freshModels, Len(freshModels) > 0, 200,
                                   NoHandler, NoTarget)
    /\ UNCHANGED <<handlerVars, proxyHandlerCache, uuids, parse, peer>>

\* DELETE /admin/models/:provider/:id
RemoveModel ==
    /\ \E m \in ModelPool :
          /\ config' = [config EXCEPT !.models = removeModel(@, m.id, m.provider)]
          /\ lastCall' = Operation("removeModel", <<m>>,
                                   removeModel(config.models, m.id, m.provider) /= config.models,
                                   IF removeModel(config.models, m.id, m.provider) /= config.models
                                   THEN 204 ELSE 404, NoHandler, NoTarget)
    /\ UNCHANGED <<handlerVars, proxyHandlerCache, uuids, parse, peer>>

InitModels ==
    /\ HandlerIdle
    /\ ServerIdle

NextModels ==
    \/ ModelsRequest
    \/ RemoveModel

SpecModels == InitModels /\ [][NextModels]_vars

\* the models of a list, by id and provider
ModelKeys(models) == {<<models[i].id, models[i].provider>> : i \in 1..Len(models)}

\* C34: after a GET /v1/models request that fetched at least one model, the
\* registry holds exactly the fetched models, by id and provider
C34_RegistryIsFresh ==
    (lastCall.op = "models" /\ Len(lastCall.arg) > 0)
        => ModelKeys(config.models) = ModelKeys(lastCall.arg)

-----------------------------------------------------------------------------
(* StreamHandler.parseStream over the bytes of the backend stream *)

\* the bytes of a stream line: Pre stands for the bytes of data: {"content":"
\* and Suf for those of "}, Done for those of data: [DONE]; "a" is a one-byte
\* character, E1 E2 are the two bytes of one character, NL is the newline
\* "é" and "?" below are that character and the replacement character
Pre == "data: {\"content\":\""
Suf == "\"}"
Done == "data: [DONE]"

\* the lines the backend sends, without their newline
StreamLines ==
    { <<Pre, "a", Suf>>, <<Pre, "E1", "E2", Suf>>, <<Pre, Suf>>, <<Done>>, <<>> }

\* the texts the backend sends: up to n lines, the last with or without its
\* newline
RECURSIVE LinesText(_)
LinesText(ls) == IF ls = <<>> THEN <<>> ELSE Head(ls) \o <<NL>> \o LinesText(Tail(ls))

StreamTexts(n) ==
    LET lists == UNION {[1..k -> StreamLines] : k \in 1..n} IN
    {LinesText(ls) : ls \in lists}
        \cup {SubSeq(LinesText(ls), 1, Len(LinesText(ls)) - 1) : ls \in lists}

\* Buffer.toString: the bytes of a chunk decoded as UTF-8 on their own; the two
\* bytes of a character give the character, either of them alone gives the
\* replacement character
RECURSIVE Decode(_)
Decode(bytes) ==
    IF bytes = <<>> THEN <<>>
    ELSE IF Head(bytes) = "E1" /\ Len(bytes) >= 2 /\ bytes[2] = "E2"
    THEN <<"é">> \o Decode(Tail(Tail(bytes)))
    ELSE IF Head(bytes) \in {"E1", "E2"} THEN <<"?">> \o Decode(Tail(bytes))
    ELSE <<Head(bytes)>> \o Decode(Tail(bytes))

\* String.split('\n') on decoded text: the pieces between newlines, the last
\* one being what follows the last newline
RECURSIVE SplitLines(_, _)
SplitLines(text, line) ==
    IF text = <<>> THEN <<line>>
    ELSE IF Head(text) = NL THEN <<line>> \o SplitLines(Tail(text), <<>>)
    ELSE SplitLines(Tail(text), Append(line, Head(text)))

\* extractContent on a line: null (the empty sequence) for a blank line, for
\* the [DONE] line and for a line that is not a JSON object with content;
\* else the content, which may be empty
LineContent(line) ==
    IF line = <<>> \/ line = <<Done>> THEN <<>>
    ELSE IF Len(line) >= 2 /\ Head(line) = Pre /\ line[Len(line)] = Suf
            /\ \A i \in 2..(Len(line) - 1) : line[i] \notin {Pre, Suf, Done}
    THEN SubSeq(line, 2, Len(line) - 1)
    ELSE <<>>

\* the contents parseStream yields for a list of lines: those that are truthy
RECURSIVE YieldLines(_)
YieldLines(lines) ==
    IF lines = <<>> THEN <<>>
    ELSE (IF LineContent(Head(lines)) /= <<>> THEN <<LineContent(Head(lines))>> ELSE <<>>)
         \o YieldLines(Tail(lines))

\* one round of the for await loop of parseStream on a chunk of bytes
parseStreamChunk(p, chunk) ==
    LET text == Decode(chunk)
        lines == SplitLines(p.buffer \o text, <<>>) IN
    [p EXCEPT !.rest = SubSeq(@, Len(chunk) + 1, Len(@)),
              !.buffer = lines[Len(lines)],
              !.yielded = @ \o YieldLines(SubSeq(lines, 1, Len(lines) - 1))]

\* the end of parseStream: what is left in the buffer
parseStreamEnd(p) ==
    [p EXCEPT !.buffer = <<>>, !.yielded = @ \o YieldLines(<<p.buffer>>), !.done = TRUE]

\* the network delivers the next bytes as one chunk
ParseChunk ==
    /\ ~parse.done
    /\ parse.rest /= <<>>
    /\ \E n \in 1..Len(parse.rest) :
          parse' = parseStreamChunk(parse, SubSeq(parse.rest, 1, n))
    /\ UNCHANGED <<handlerVars, config, proxyHandlerCache, uuids, lastCall, peer>>

\* the stream ends
ParseEnd ==
    /\ ~parse.done
    /\ parse.rest = <<>>
    /\ parse' = parseStreamEnd(parse)
    /\ UNCHANGED <<handlerVars, config, proxyHandlerCache, uuids, lastCall, peer>>

InitParse ==
    /\ HandlerIdle
    /\ config = DefaultConfig
    /\ proxyHandlerCache = <<>>
    /\ uuids = 0
    /\ lastCall = NoOperation
    /\ parse \in {[rest |-> t, buffer |-> <<>>, yielded |-> <<>>, whole |-> t, done |-> FALSE] :
                     t \in StreamTexts(MaxLines)}
    /\ peer = NoPeer

NextParse ==
    \/ ParseChunk
    \/ ParseEnd

SpecParse == InitParse /\ [][NextParse]_vars

\* the contents of the lines of a text of bytes, in line order, the empty ones
\* left out
WholeContents(bytes) == YieldLines(SplitLines(Decode(bytes), <<>>))

\* C35: whatever chunks the bytes of the backend stream arrive in, parseStream
\* yields the content of each line once, in line order, and no empty content
C35_ChunkingInvariant ==
    parse.done =>
        /\ parse.yielded = WholeContents(parse.whole)
        /\ \A i \in 1..Len(parse.yielded) : parse.yielded[i] /= <<>>

-----------------------------------------------------------------------------
(* Claim C33: a candidate the Extractor rejects *)

\* {}: an object without function_call
EmptyObjectText == <<LB, RB>>

\* {"function_call":{}}: a function_call without name
NamelessCallText == <<LB, F1, F2, LB, RB, RB>>

\* replies with a candidate that does not parse (the prose of a code block, a
\* call object cut short inside a code block), with one that parses and is no
\* call, with a call, and without a candidate
RecoverTexts ==
    {CodeBlockText, <<FN, LB, F1, F2, FN>>, EmptyObjectText, NamelessCallText,
     <<PR>> \o NamelessCallText, CallText, <<PR>>}

\* either handler on a reply of RecoverTexts
InitRecover ==
    /\ request \in [messages : {<<UserMsg>>, <<UserMsg, AssistantCallMsg, ToolMsg>>},
                    tools : {<<Tool1>>},
                    stream : BOOLEAN]
    /\ configMaxRounds = 0
    /\ backendText \in RecoverTexts
    /\ InitLocals
    /\ ServerIdle

SpecRecover == InitRecover /\ [][Next]_vars

\* the text holds a candidate, and the candidate does not parse as JSON or is
\* no function_call object with a name
CandidateRejected(text) ==
    LET parsed == JSONParse(JsonContent(text)) IN
    /\ JsonContent(text) /= <<>>
    /\ \/ ~parsed.ok
       \/ ~Truthy(Get(parsed.val, KeyFunctionCall))
       \/ ~Truthy(Get(Get(parsed.val, KeyFunctionCall), KeyName))

\* C33: when the candidate of the backend text is rejected, the Extractor
\* returns no call, the handler does not fail, and the request is completed
\* with the whole backend text as a plain answer ending in stop
C33_RejectedCandidateIsPlainAnswer ==
    (CandidateRejected(fullResponse) /\ pc \in {"done", "failed"}) =>
        /\ extractToolCallFromResponse(fullResponse) = NoCall
        /\ pc = "failed" => error = "BackendError"
        /\ pc = "done" =>
              IF request.stream
              THEN /\ EndedWithStop
                   /\ ContentsOf(emitted) = fullResponse
                   /\ \A i \in 1..Len(emitted) : ~IsToolCall(emitted[i])
              ELSE result = createCompletionResponse(fullResponse)

\* C33 witness: a streamed reply whose function_call has no name was buffered
\* as a suspected call and then delivered as a plain answer
C33_Witness ==
    /\ pc = "done"
    /\ request.stream
    /\ ~Finalization
    /\ fullResponse = <<PR>> \o NamelessCallText
    /\ toolCallDetected
    /\ JSONParse(JsonContent(fullResponse)).ok
    /\ EndedWithStop

-----------------------------------------------------------------------------
(* Claim C40: the two handlers on the same reply *)

\* C40: for a non-empty backend text and every splitting of it into deltas,
\* the stream ends with a ToolCall event and End(tool_calls) exactly when the
\* non-streaming response to the same request and text has finish_reason
\* tool_calls, the call then being the same in name and arguments, and it ends
\* with End(stop) exactly when the non-streaming response is a plain answer
C40_SameDecision ==
    (request.stream /\ pc = "done" /\ backendText /= <<>>) =>
        LET r == RequestResult(backendText)
            last == emitted[Len(emitted)]
            calls == {i \in 1..Len(emitted) : IsToolCall(emitted[i])} IN
        /\ hasToolResponse = Finalization
        /\ emitted /= <<>>
        /\ last = End("tool_calls") <=> r.finish_reason = "tool_calls"
        /\ last = End("stop") <=> r.finish_reason = "stop"
        /\ r.finish_reason = "tool_calls"
              => /\ calls = {Len(emitted) - 1}
                 /\ emitted[Len(emitted) - 1].tool_calls = r.tool_calls
        /\ r.finish_reason = "stop" => calls = {}

\* C40 witness: a call with arguments arrived in pieces, the first of them
\* streamed through as text, and was returned as on the non-streaming handler
C40_Witness ==
    /\ request.stream /\ pc = "done" /\ ~Finalization
    /\ Len(consumed) >= 2
    /\ Len(consumed) > Len(bufferedChunks)
    /\ RequestResult(backendText).finish_reason = "tool_calls"
    /\ extractToolCallFromResponse(backendText).arguments /= ObjVal(<<>>).ser
    /\ emitted[Len(emitted)] = End("tool_calls")

-----------------------------------------------------------------------------
(* a second streaming request on the same handler *)

\* the locals of a call of handleStreamingRequest before its first statement,
\* with the text its backend will stream
StreamLocals(req, text) ==
    [NoPeer EXCEPT !.pc = "init", !.request = req, !.source = text]

\* the statements up to the call of the backend
LocalsBegin(l) ==
    IF l.round < maxRounds
    THEN [l EXCEPT !.hasToolResponse = HasToolMessage(l.request.messages),
                   !.messages = InjectedMessages(l.request.messages, l.request.tools),
                   !.pc = "streaming"]
    ELSE [l EXCEPT !.hasToolResponse = HasToolMessage(l.request.messages),
                   !.messages = InjectedMessages(l.request.messages, l.request.tools),
                   !.pc = "failed"]

\* the body of the for-await loop on one delta
LocalsChunk(l, chunk) ==
    LET full == l.fullResponse \o chunk
        seen == [l EXCEPT !.fullResponse = full, !.consumed = Append(@, chunk)] IN
    IF ~l.hasToolResponse
    THEN IF LooksLikeToolCall(full) /\ ~l.toolCallDetected
         THEN [seen EXCEPT !.toolCallDetected = TRUE, !.bufferedChunks = Append(@, chunk)]
         ELSE IF l.toolCallDetected
         THEN [seen EXCEPT !.bufferedChunks = Append(@, chunk)]
         ELSE [seen EXCEPT !.emitted = Append(@, createStreamChunk(chunk, "null"))]
    ELSE [seen EXCEPT !.emitted = Append(@, createStreamChunk(chunk, "null"))]

\* the statements after the loop
LocalsEnd(l) ==
    LET replay == IF l.toolCallDetected /\ Len(l.bufferedChunks) > 0
                  THEN [i \in 1..Len(l.bufferedChunks) |->
                           createStreamChunk(l.bufferedChunks[i], "null")]
                  ELSE <<>> IN
    [l EXCEPT !.pc = "done",
              !.emitted =
                  IF l.hasToolResponse THEN Append(@, createStreamChunk(<<>>, "stop"))
                  ELSE IF extractToolCallFromResponse(l.fullResponse).found
                  THEN @ \o CallChunks(l.fullResponse, "tool_calls")
                  ELSE @ \o replay \o <<createStreamChunk(<<>>, "stop")>>]

\* the second request enters the handler
PeerBegin ==
    /\ peer.pc = "init"
    /\ peer' = LocalsBegin(peer)
    /\ UNCHANGED <<handlerVars, config, proxyHandlerCache, uuids, lastCall, parse>>

\* mutant: the accumulated text is a field of the handler, shared by its calls
PeerDelta_SharedText ==
    /\ peer.pc = "streaming"
    /\ peer.source /= <<>>
    /\ \E n \in 1..Len(peer.source) :
          /\ Len(peer.consumed) + 1 < MaxDeltas \/ n = Len(peer.source)
          /\ peer' = [LocalsChunk([peer EXCEPT !.fullResponse = fullResponse],
                                  SubSeq(peer.source, 1, n))
                         EXCEPT !.source = SubSeq(@, n + 1, Len(@))]
    /\ fullResponse' = peer'.fullResponse
    /\ UNCHANGED <<request, messages, configMaxRounds, backendText, source, pc, round,
                   hasToolResponse, toolCallDetected, bufferedChunks, emitted, result,
                   error, consumed, sent, extractorCalls, extractions, executed,
                   compiled, replyShape, unmatched, res,
                   config, proxyHandlerCache, uuids, lastCall, parse>>

\* a delta of the second request arrives
PeerDelta ==
    /\ peer.pc = "streaming"
    /\ peer.source /= <<>>
    /\ \E n \in 1..Len(peer.source) :
          /\ Len(peer.consumed) + 1 < MaxDeltas \/ n = Len(peer.source)
          /\ peer' = [LocalsChunk(peer, SubSeq(peer.source, 1, n))
                         EXCEPT !.source = SubSeq(@, n + 1, Len(@))]
    /\ UNCHANGED <<handlerVars, config, proxyHandlerCache, uuids, lastCall, parse>>

\* the stream of the second request ends
PeerEnd ==
    /\ peer.pc = "streaming"
    /\ peer.source = <<>>
    /\ peer' = LocalsEnd(peer)
    /\ UNCHANGED <<handlerVars, config, proxyHandlerCache, uuids, lastCall, parse>>

\* the requests and replies of two streaming calls in flight together
PeerRequests ==
    [messages : {<<UserMsg>>, <<UserMsg, AssistantCallMsg, ToolMsg>>},
     tools : {<<Tool1>>},
     stream : {TRUE}]

PeerTexts == {<<PR>> \o CallText, <<PR, LB, PR>>}

InitPeers ==
    /\ request \in PeerRequests
    /\ configMaxRounds = 0
    /\ backendText \in PeerTexts
    /\ InitLocals
    /\ config = DefaultConfig
    /\ proxyHandlerCache = <<>>
    /\ uuids = 0
    /\ lastCall = NoOperation
    /\ parse = NoParse
    /\ peer \in {StreamLocals(r, t) : r \in PeerRequests, t \in PeerTexts}

NextPeers ==
    \/ BeginStream
    \/ StreamDelta
    \/ StreamEnd
    \/ PeerBegin
    \/ PeerDelta
    \/ PeerEnd

SpecPeers == InitPeers /\ [][NextPeers]_vars

\* the locals of a request that runs alone, after the deltas ds
RECURSIVE AfterDeltas(_, _)
AfterDeltas(l, ds) ==
    IF ds = <<>> THEN l ELSE AfterDeltas(LocalsChunk(l, Head(ds)), Tail(ds))

RunAlone(req, ds, ended) ==
    LET l == AfterDeltas(LocalsBegin(StreamLocals(req, <<>>)), ds) IN
    IF ended THEN LocalsEnd(l) ELSE l

\* C32: with two requests in flight on one handler, interleaved at the call
\* of the backend and at every delta, the detector mode, buffer, accumulated
\* text, message list, round counter and events of each request are those of
\* the request run alone on the deltas it received
C32_RequestsIndependent ==
    /\ pc \in {"streaming", "done"} =>
          LET alone == RunAlone(request, consumed, pc = "done") IN
          /\ emitted = alone.emitted
          /\ toolCallDetected = alone.toolCallDetected
          /\ bufferedChunks = alone.bufferedChunks
          /\ fullResponse = alone.fullResponse
          /\ messages = alone.messages
          /\ round = alone.round
          /\ hasToolResponse = alone.hasToolResponse
    /\ peer.pc \in {"streaming", "done"} =>
          LET alone == RunAlone(peer.request, peer.consumed, peer.pc = "done") IN
          /\ peer.emitted = alone.emitted
          /\ peer.toolCallDetected = alone.toolCallDetected
          /\ peer.bufferedChunks = alone.bufferedChunks
          /\ peer.fullResponse = alone.fullResponse
          /\ peer.messages = alone.messages
          /\ peer.round = alone.round

\* C32 witness: both requests are done, their deltas interleaved; one was
\* buffered as a suspected call and ended with the call, the other streamed
\* a final answer through
C32_Witness ==
    /\ pc = "done" /\ peer.pc = "done"
    /\ ~hasToolResponse /\ peer.hasToolResponse
    /\ Len(consumed) >= 2 /\ Len(peer.consumed) >= 2
    /\ toolCallDetected
    /\ emitted[Len(emitted)] = End("tool_calls")
    /\ peer.emitted[Len(peer.emitted)] = End("stop")
    /\ Len(peer.emitted) = Len(peer.consumed) + 1

====
